---- MODULE Spec2Model ----
(***************************************************************************)
(* ShowingHive (src/extended_app.py): the scheduling and workflow engine.  *)
(*                                                                         *)
(* The in-memory stores of the Flask application are the state; every API  *)
(* route that reads or writes them is one action.  Datetimes are minutes   *)
(* since midnight of one day; an ISO string of the request is the pair     *)
(* <<hour, minute>>, parsed by fromisoformat and rendered by isoformat.    *)
(* None is NoCode for a lockbox code and NoTime for a datetime.  Wall-clock*)
(* stamps (created_at, the timestamp of a log entry) and the contact       *)
(* fields that only feed notifications are left out: no handler branches   *)
(* on them.  A disclosure file is its name; its bytes are left out.        *)
(*                                                                         *)
(* Spec is the scheduling API, SpecConc two concurrent showing requests,   *)
(* SpecOverlap the two overlap tests over arbitrary stores, SpecShares the *)
(* disclosure workflow, SpecBlocks the two routes that add blocked ranges, *)
(* SpecCausal a showing request interleaved with the handlers that act on  *)
(* its showing, SpecReload the routes that write the database and the      *)
(* reload of the stores from it, SpecSimple the simple application         *)
(* src/app.py, SpecGuests the guest access requests, SpecTours the buyer   *)
(* tours, SpecSync the booking routes of the UI next to POST /showings,    *)
(* SpecUi the lifecycle routes of the UI next to those of the API.         *)
(***************************************************************************)
EXTENDS Integers, Sequences, FiniteSets, TLC

VARIABLES
    properties,     \* properties: Dict[str, Dict]        (line 102)
    showings,       \* showings: Dict[str, Dict]          (line 103)
    blocked_times,  \* blocked_times: Dict[str, List]     (line 105)
    activity_logs,  \* activity_logs: Dict[str, List]     (line 259)
    response,       \* the last request handled and what the handler returned
    threads,        \* showing_list handlers in flight (SpecConc only)
    disclosures,    \* disclosures: Dict[str, Dict[str, bytes]]       (line 258)
    packages,       \* packages: Dict[str, Dict]                      (line 268)
    package_shares, \* package_shares: Dict[str, Dict]                (line 269)
    disclosure_feedback_store,  \* Dict[str, List[Dict]]              (line 276)
    PropertyModel,  \* the rows of table properties      (line 157)
    ShowingModel,   \* the rows of table showings        (line 171)
    tours,          \* tours: Dict[str, Dict]             (line 106)
    guest_requests, \* guest_requests: Dict[str, Dict]    (line 2198)
    app_properties, \* properties: List[Dict] of src/app.py (line 27)
    app_showings    \* showings: List[Dict] of src/app.py   (line 28)

\* the stores of the disclosure workflow
share_vars == <<disclosures, packages, package_shares,
                disclosure_feedback_store>>

\* the tables of the SQLite database
db_vars == <<PropertyModel, ShowingModel>>

\* the stores of tours and of guest access requests, and the showing list of
\* the simple application src/app.py
aux_vars == <<tours, guest_requests, app_properties, app_showings>>

vars == <<properties, showings, blocked_times, activity_logs, response,
          threads, share_vars, db_vars, aux_vars>>

---------------------------------------------------------------------------
(* Bounds of the model *)

MaxShowings == 2    \* showings created
MaxEvents   == 3    \* activity events recorded, over all properties

(* Program constants *)

Hour         == 60      \* timedelta(hours=1)
CodeLifetime == 75      \* timedelta(hours=1, minutes=15)
MaxCode      == 999999  \* random.randint(0, 999999)
CodeWidth    == 6       \* the format spec 06d

NoCode == << >>         \* lockbox_code None
NoTime == -1            \* code_expires_at None
NoId   == 0             \* no showing / property addressed

PropIds    == {1, 2}        \* the properties that get created
ShowingIds == 1..MaxShowings
Threads    == {1, 2}

\* ISO strings a client may send: well-formed times, one malformed, one missing.
Missing    == << >>
BadIso     == <<0, 60>>
GoodIso    == {<<0, 0>>, <<0, 30>>, <<1, 0>>}
IsoInputs  == GoodIso \cup {BadIso, Missing}
\* what random.randint may return, as far as the model draws it
RandInts   == {7, MaxCode}

---------------------------------------------------------------------------
(* Helpers *)

\* dict.get(key, default)
dict_get(d, k, default) == IF k \in DOMAIN d THEN d[k] ELSE default

\* datetime.fromisoformat raises unless the string is a valid time
iso_valid(s) == Len(s) = 2 /\ s[1] \in 0..23 /\ s[2] \in 0..59

fromisoformat(s) == s[1] * 60 + s[2]

isoformat(t) == <<t \div 60, t % 60>>

RECURSIVE Digits(_)
Digits(n) == IF n < 10 THEN <<n>> ELSE Append(Digits(n \div 10), n % 10)

RECURSIVE ZeroPad(_, _)
ZeroPad(s, w) == IF Len(s) >= w THEN s ELSE ZeroPad(<<0>> \o s, w)

\* f"{n:06d}" without the zero fill
generate_lockbox_code_unpadded(n) == Digits(n)

\* generate_lockbox_code(): f"{random.randint(0, 999999):06d}", n the draw
generate_lockbox_code(n) == ZeroPad(Digits(n), CodeWidth)

\* log_event that records no decline
log_event_but_declines(logs, property_id, event_type, details) ==
    LET entry == [type |-> event_type, details |-> details]
    IN  IF event_type = "showing_declined" THEN logs
        ELSE (property_id :> (<<entry>> \o dict_get(logs, property_id, << >>)))
                @@ logs

\* log_event that appends the entry at the end of the property's list
log_event_append(logs, property_id, event_type, details) ==
    LET entry == [type |-> event_type, details |-> details]
    IN  (property_id :> Append(dict_get(logs, property_id, << >>), entry))
            @@ logs

\* log_event: insert(0, entry) into the property's list
log_event(logs, property_id, event_type, details) ==
    LET entry == [type |-> event_type, details |-> details]
    IN  (property_id :> (<<entry>> \o dict_get(logs, property_id, << >>)))
            @@ logs

TotalEvents ==
    LET RECURSIVE Sum(_)
        Sum(S) == IF S = {} THEN 0
                  ELSE LET p == CHOOSE x \in S : TRUE
                       IN  Len(activity_logs[p]) + Sum(S \ {p})
    IN  Sum(DOMAIN activity_logs)

\* the half-open overlap test of is_time_blocked and has_conflict
is_time_blocked(property_id, start, end) ==
    \E i \in 1..Len(dict_get(blocked_times, property_id, << >>)) :
        LET b == blocked_times[property_id][i]
        IN  start < b[2] /\ end > b[1]

\* has_conflict with closed windows: touching windows count as overlapping
has_conflict_closed(property_id, start, end) ==
    \E id \in DOMAIN showings :
        /\ showings[id].property_id = property_id
        /\ showings[id].status # "declined"
        /\ LET s_start == showings[id].scheduled_at
               s_end   == s_start + Hour
           IN  start <= s_end /\ end >= s_start

\* has_conflict that only sees a showing with the same start
has_conflict_same_start(property_id, start, end) ==
    \E id \in DOMAIN showings :
        /\ showings[id].property_id = property_id
        /\ showings[id].status # "declined"
        /\ start = showings[id].scheduled_at

\* has_conflict that also counts declined showings
has_conflict_counts_declined(property_id, start, end) ==
    \E id \in DOMAIN showings :
        /\ showings[id].property_id = property_id
        /\ LET s_start == showings[id].scheduled_at
               s_end   == s_start + Hour
           IN  start < s_end /\ end > s_start

\* has_conflict that looks at the showings of every property
has_conflict_any_property(property_id, start, end) ==
    \E id \in DOMAIN showings :
        /\ showings[id].status # "declined"
        /\ LET s_start == showings[id].scheduled_at
               s_end   == s_start + Hour
           IN  start < s_end /\ end > s_start

has_conflict(property_id, start, end) ==
    \E id \in DOMAIN showings :
        /\ ~(showings[id].property_id # property_id
             \/ showings[id].status = "declined")
        /\ LET s_start == showings[id].scheduled_at
               s_end   == s_start + Hour
           IN  start < s_end /\ end > s_start

\* what a handler returns: the HTTP status with the error message, or with
\* the id of the showing (or property) whose JSON is the body
Resp(status, error, id) == [status |-> status, error |-> error, id |-> id]

---------------------------------------------------------------------------
(* The approve algorithm and its copies, as updates of one showing dict *)

\* approve_showing, lines 716-719
approve_update(s, n) ==
    [s EXCEPT !.lockbox_code = generate_lockbox_code(n),
              !.code_expires_at = s.scheduled_at + CodeLifetime,
              !.status = "approved"]

\* auto-approval that issues the credential and leaves the showing pending
auto_approve_update_stays_pending(s, n) ==
    [s EXCEPT !.lockbox_code = generate_lockbox_code(n),
              !.code_expires_at = s.scheduled_at + CodeLifetime]

\* showing_list, lines 653-656 ("mimic the approve_showing logic")
auto_approve_update(s, n) ==
    [s EXCEPT !.lockbox_code = generate_lockbox_code(n),
              !.code_expires_at = s.scheduled_at + CodeLifetime,
              !.status = "approved"]

\* decline_showing, line 788
decline_update(s) == [s EXCEPT !.status = "declined"]

\* reschedule_showing that moves the showing and keeps the old credential
reschedule_update_keep_code(s, start, n) == [s EXCEPT !.scheduled_at = start]

\* reschedule_showing that draws a new code and keeps the old expiry
reschedule_update_keep_expiry(s, start, n) ==
    IF s.status = "approved"
    THEN [s EXCEPT !.scheduled_at = start,
                   !.lockbox_code = generate_lockbox_code(n)]
    ELSE [s EXCEPT !.scheduled_at = start]

\* reschedule_showing that sends an approved showing back to pending
reschedule_update_repending(s, start, n) ==
    IF s.status = "approved"
    THEN [s EXCEPT !.scheduled_at = start,
                   !.lockbox_code = generate_lockbox_code(n),
                   !.code_expires_at = start + CodeLifetime,
                   !.status = "pending"]
    ELSE [s EXCEPT !.scheduled_at = start]

\* reschedule_showing, lines 865-871
reschedule_update(s, start, n) ==
    IF s.status = "approved"
    THEN [s EXCEPT !.scheduled_at = start,
                   !.lockbox_code = generate_lockbox_code(n),
                   !.code_expires_at = start + CodeLifetime]
    ELSE [s EXCEPT !.scheduled_at = start]

\* approve_showing that only refuses declined showings
approve_allowed_not_declined(s) == s.status # "declined"

\* approve_showing, line 714
approve_allowed(s) == ~(s.status # "pending")

\* decline_showing that only refuses declined showings
decline_allowed_not_declined(s) == s.status # "declined"

\* decline_showing, line 786
decline_allowed(s) == ~(s.status # "pending")

---------------------------------------------------------------------------
(* Initial state: the module-level stores are empty *)

IdleThread == [pc |-> "idle", prop_id |-> NoId, sched_str |-> Missing,
               client_name |-> "", outcome |-> "none", showing_id |-> NoId]

Init ==
    /\ properties = << >>
    /\ showings = << >>
    /\ blocked_times = << >>
    /\ activity_logs = << >>
    /\ response = Resp(0, "", NoId)
    /\ threads = [t \in Threads |-> IdleThread]
    /\ disclosures = << >>
    /\ packages = << >>
    /\ package_shares = << >>
    /\ disclosure_feedback_store = << >>
    /\ PropertyModel = << >>
    /\ ShowingModel = << >>
    /\ tours = << >>
    /\ guest_requests = << >>
    /\ app_properties = << >>
    /\ app_showings = << >>

\* the showing ids drawn so far: those stored, in memory or in the table,
\* and those the log mentions
UsedShowingIds ==
    DOMAIN showings \cup DOMAIN ShowingModel
      \cup UNION {{activity_logs[p][i].details.showing_id :
                      i \in {k \in 1..Len(activity_logs[p]) :
                                "showing_id"
                                  \in DOMAIN activity_logs[p][k].details}} :
                   p \in DOMAIN activity_logs}

\* the property ids drawn so far
UsedPropIds ==
    DOMAIN properties \cup DOMAIN PropertyModel \cup DOMAIN blocked_times
      \cup DOMAIN activity_logs \cup DOMAIN disclosures
      \cup {packages[k].property_id : k \in DOMAIN packages}

\* str(uuid.uuid4()): an id that was not drawn before
NextPropId    == Cardinality(UsedPropIds) + 1
NextShowingId == Cardinality(UsedShowingIds) + 1

---------------------------------------------------------------------------
(* POST /properties *)

property_list(name_ok, auto, disclosure) ==
    /\ IF ~name_ok
       THEN /\ response' = Resp(400, "name and address are required", NoId)
            /\ UNCHANGED properties
       ELSE /\ NextPropId \in PropIds
            /\ properties' = (NextPropId :>
                                [auto_approve_showings |-> auto,
                                 requires_disclosure_approval |-> disclosure])
                             @@ properties
            /\ response' = Resp(201, "", NextPropId)
    /\ UNCHANGED <<showings, blocked_times, activity_logs, threads,
                   share_vars, db_vars, aux_vars>>

\* no refusal: the request goes through
NoError == <<0, "">>

(* Notifications *)

\* whom a handler notifies: the buyer, and the seller with the agent
Dispatches == {"buyer", "seller"}

\* send_sms and send_email that let a failed delivery raise
send_raises_uncaught(to, failing) == to \in failing

\* send_sms, lines 350-354, and send_email, lines 403-420: whether the call
\* raises when the delivery to one of `failing' fails. The Twilio and SMTP
\* calls sit in a try whose except clause prints and returns.
send_raises(to, failing) == FALSE

\* try: <notifications> except Exception: pass, whether an exception leaves
\* the block when some call in it raises
escapes_try(raises) == FALSE

\* whether a handler that notifies the buyer and the seller, each in a try
\* of its own, is left by an exception
notify_escapes(failing) ==
    \E to \in Dispatches : escapes_try(send_raises(to, failing))

\* Flask's answer to an exception that leaves a handler
ServerError == Resp(500, "Internal Server Error", NoId)

\* The requests are served with every delivery failing; a handler takes
\* the same steps whichever deliveries fail (C28).
Undelivered == Dispatches

(* POST /properties/<property_id>/blocks *)

\* manage_blocks, lines 521-534: what the request is refused with, if it is
manage_blocks_error(property_id, start_str, end_str) ==
    IF property_id \notin DOMAIN properties
    THEN <<404, "property not found">>
    ELSE IF ~(iso_valid(start_str) /\ iso_valid(end_str))
    THEN <<400, "invalid start or end time">>
    ELSE IF fromisoformat(end_str) <= fromisoformat(start_str)
    THEN <<400, "end must be after start">>
    ELSE IF is_time_blocked(property_id, fromisoformat(start_str),
                            fromisoformat(end_str))
    THEN <<409, "time range overlaps existing block">>
    ELSE NoError

manage_blocks(property_id, start_str, end_str) ==
    LET err == manage_blocks_error(property_id, start_str, end_str)
    IN  /\ IF err # NoError
           THEN /\ response' = Resp(err[1], err[2], NoId)
                /\ UNCHANGED blocked_times
           ELSE /\ blocked_times' =
                     (property_id :>
                         Append(dict_get(blocked_times, property_id, << >>),
                                <<fromisoformat(start_str),
                                  fromisoformat(end_str)>>))
                     @@ blocked_times
                /\ response' = Resp(201, "", NoId)
        /\ UNCHANGED <<properties, showings, activity_logs, threads,
                       share_vars, db_vars, aux_vars>>

(* POST /showings *)

\* showing_list that does not look at the blocked ranges
showing_list_error_unblocked(prop_id, sched_str, client_name) ==
    IF prop_id = NoId \/ prop_id \notin DOMAIN properties
    THEN <<400, "invalid property_id">>
    ELSE IF sched_str = Missing \/ client_name = ""
    THEN <<400, "scheduled_at and client_name are required">>
    ELSE IF ~iso_valid(sched_str)
    THEN <<400, "invalid date format">>
    ELSE LET start == fromisoformat(sched_str)
             end   == start + Hour
         IN  IF has_conflict(prop_id, start, end)
             THEN <<409, "requested time conflicts with another showing">>
             ELSE NoError

\* showing_list that looks for a conflicting showing before it looks at the
\* blocked ranges
showing_list_error_conflict_first(prop_id, sched_str, client_name) ==
    IF prop_id = NoId \/ prop_id \notin DOMAIN properties
    THEN <<400, "invalid property_id">>
    ELSE IF sched_str = Missing \/ client_name = ""
    THEN <<400, "scheduled_at and client_name are required">>
    ELSE IF ~iso_valid(sched_str)
    THEN <<400, "invalid date format">>
    ELSE LET start == fromisoformat(sched_str)
             end   == start + Hour
         IN  IF has_conflict(prop_id, start, end)
             THEN <<409, "requested time conflicts with another showing">>
             ELSE IF is_time_blocked(prop_id, start, end)
             THEN <<409, "requested time is blocked">>
             ELSE NoError

\* showing_list, lines 560-573: what the request is refused with, if it is
showing_list_error(prop_id, sched_str, client_name) ==
    IF prop_id = NoId \/ prop_id \notin DOMAIN properties
    THEN <<400, "invalid property_id">>
    ELSE IF sched_str = Missing \/ client_name = ""
    THEN <<400, "scheduled_at and client_name are required">>
    ELSE IF ~iso_valid(sched_str)
    THEN <<400, "invalid date format">>
    ELSE LET start == fromisoformat(sched_str)
             end   == start + Hour
         IN  IF is_time_blocked(prop_id, start, end)
             THEN <<409, "requested time is blocked">>
             ELSE IF has_conflict(prop_id, start, end)
             THEN <<409, "requested time conflicts with another showing">>
             ELSE NoError

\* showing_list, lines 574-700: the insert, the log entry, the auto-approval
showing_list_create(prop_id, sched_str, client_name, n, failing) ==
    LET showing_id == NextShowingId
        start == fromisoformat(sched_str)
        pending == [id |-> showing_id,
                    property_id |-> prop_id,
                    client_name |-> client_name,
                    scheduled_at |-> start,
                    status |-> "pending",
                    lockbox_code |-> NoCode,
                    code_expires_at |-> NoTime]
        requested == log_event(activity_logs, prop_id, "showing_requested",
                        [showing_id |-> showing_id,
                         client_name |-> client_name,
                         scheduled_at |-> isoformat(start)])
        auto == properties[prop_id].auto_approve_showings
        s == auto_approve_update(pending, n)
        \* lines 646-699 are one try: a call that raises in it skips the
        \* log_event at its end, after the showing was approved
        raised == \E to \in Dispatches : send_raises(to, failing)
    IN  /\ showing_id <= MaxShowings
        /\ TotalEvents + (IF auto THEN 2 ELSE 1) <= MaxEvents
        /\ IF notify_escapes(failing)
           THEN /\ showings' = (showing_id :> pending) @@ showings
                /\ UNCHANGED activity_logs
                /\ response' = ServerError
           ELSE /\ IF auto /\ pending.status = "pending"
                   THEN /\ showings' = (showing_id :> s) @@ showings
                        /\ activity_logs' =
                             IF raised THEN requested
                             ELSE log_event(requested, prop_id,
                                    "showing_approved",
                                    [showing_id |-> showing_id,
                                     client_name |-> s.client_name,
                                     scheduled_at |->
                                         isoformat(s.scheduled_at),
                                     lockbox_code |-> s.lockbox_code,
                                     auto |-> TRUE])
                   ELSE /\ showings' = (showing_id :> pending) @@ showings
                        /\ activity_logs' = requested
                /\ response' = Resp(201, "", showing_id)

\* the handler when the deliveries to `failing' fail
showing_list_when(prop_id, sched_str, client_name, n, failing) ==
    LET err == showing_list_error(prop_id, sched_str, client_name)
    IN  /\ IF err # NoError
           THEN /\ response' = Resp(err[1], err[2], NoId)
                /\ UNCHANGED <<showings, activity_logs>>
           ELSE showing_list_create(prop_id, sched_str, client_name, n,
                                    failing)
        /\ UNCHANGED <<properties, blocked_times, threads, share_vars, db_vars, aux_vars>>

showing_list(prop_id, sched_str, client_name, n) ==
    showing_list_when(prop_id, sched_str, client_name, n, Undelivered)

(* POST /showings/<showing_id>/approve *)

\* approve_showing, lines 711-715: what the request is refused with
approve_showing_error(showing_id) ==
    IF showing_id \notin DOMAIN showings
    THEN <<404, "showing not found">>
    ELSE IF ~approve_allowed(showings[showing_id])
    THEN <<400, "only pending showings can be approved">>
    ELSE NoError

\* the handler when the deliveries to `failing' fail
approve_showing_when(showing_id, n, failing) ==
    LET err == approve_showing_error(showing_id)
    IN
    /\ IF err # NoError
       THEN /\ response' = Resp(err[1], err[2], NoId)
            /\ UNCHANGED <<showings, activity_logs>>
       ELSE LET s == approve_update(showings[showing_id], n)
            IN  /\ TotalEvents < MaxEvents
                /\ showings' = [showings EXCEPT ![showing_id] = s]
                /\ IF notify_escapes(failing)
                   THEN /\ UNCHANGED activity_logs
                        /\ response' = ServerError
                   ELSE /\ activity_logs' =
                             log_event(activity_logs, s.property_id,
                                "showing_approved",
                                [showing_id |-> showing_id,
                                 client_name |-> s.client_name,
                                 scheduled_at |-> isoformat(s.scheduled_at),
                                 lockbox_code |-> s.lockbox_code])
                        /\ response' = Resp(200, "", showing_id)
    /\ UNCHANGED <<properties, blocked_times, threads, share_vars, db_vars, aux_vars>>

approve_showing(showing_id, n) ==
    approve_showing_when(showing_id, n, Undelivered)

(* POST /showings/<showing_id>/decline *)

\* decline_showing, lines 783-787: what the request is refused with
decline_showing_error(showing_id) ==
    IF showing_id \notin DOMAIN showings
    THEN <<404, "showing not found">>
    ELSE IF ~decline_allowed(showings[showing_id])
    THEN <<400, "only pending showings can be declined">>
    ELSE NoError

\* the handler when the deliveries to `failing' fail: the buyer is
\* notified before the event is logged, the seller after it
decline_showing_when(showing_id, failing) ==
    LET err == decline_showing_error(showing_id)
    IN
    /\ IF err # NoError
       THEN /\ response' = Resp(err[1], err[2], NoId)
            /\ UNCHANGED <<showings, activity_logs>>
       ELSE LET s == decline_update(showings[showing_id])
            IN  /\ TotalEvents < MaxEvents
                /\ showings' = [showings EXCEPT ![showing_id] = s]
                /\ IF escapes_try(send_raises("buyer", failing))
                   THEN /\ UNCHANGED activity_logs
                        /\ response' = ServerError
                   ELSE /\ activity_logs' =
                             log_event(activity_logs, s.property_id,
                                "showing_declined",
                                [showing_id |-> showing_id,
                                 client_name |-> s.client_name,
                                 scheduled_at |-> isoformat(s.scheduled_at)])
                        /\ response' =
                             IF escapes_try(send_raises("seller", failing))
                             THEN ServerError
                             ELSE Resp(200, "", showing_id)
    /\ UNCHANGED <<properties, blocked_times, threads, share_vars, db_vars, aux_vars>>

decline_showing(showing_id) ==
    decline_showing_when(showing_id, Undelivered)

(* POST /showings/<showing_id>/reschedule *)

\* reschedule_showing, lines 847-864: what the request is refused with
reschedule_showing_error(showing_id, sched_str) ==
    IF showing_id \notin DOMAIN showings
    THEN <<404, "showing not found">>
    ELSE IF sched_str = Missing
    THEN <<400, "scheduled_at is required">>
    ELSE IF ~iso_valid(sched_str)
    THEN <<400, "invalid date format">>
    ELSE LET start   == fromisoformat(sched_str)
             prop_id == showings[showing_id].property_id
         IN  IF is_time_blocked(prop_id, start, start + Hour)
             THEN <<409, "requested time is blocked">>
             ELSE IF has_conflict(prop_id, start, start + Hour)
             THEN <<409, "requested time conflicts with another showing">>
             ELSE NoError

\* the handler when the deliveries to `failing' fail: the buyer is
\* notified before the event is logged, the seller after it
reschedule_showing_when(showing_id, sched_str, n, failing) ==
    LET err == reschedule_showing_error(showing_id, sched_str)
    IN
    /\ IF err # NoError
       THEN /\ response' = Resp(err[1], err[2], NoId)
            /\ UNCHANGED <<showings, activity_logs>>
       ELSE LET start   == fromisoformat(sched_str)
                prop_id == showings[showing_id].property_id
                s       == reschedule_update(showings[showing_id], start, n)
            IN  /\ TotalEvents < MaxEvents
                /\ showings' = [showings EXCEPT ![showing_id] = s]
                /\ IF escapes_try(send_raises("buyer", failing))
                   THEN /\ UNCHANGED activity_logs
                        /\ response' = ServerError
                   ELSE /\ activity_logs' =
                             log_event(activity_logs, prop_id,
                                "showing_rescheduled",
                                [showing_id |-> showing_id,
                                 client_name |-> s.client_name,
                                 new_scheduled_at |-> isoformat(start)])
                        /\ response' =
                             IF escapes_try(send_raises("seller", failing))
                             THEN ServerError
                             ELSE Resp(200, "", showing_id)
    /\ UNCHANGED <<properties, blocked_times, threads, share_vars, db_vars, aux_vars>>

reschedule_showing(showing_id, sched_str, n) ==
    reschedule_showing_when(showing_id, sched_str, n, Undelivered)

(* GET /showings/<showing_id>/code, now the value of datetime.utcnow() *)

\* get_lockbox_code that also refuses the code at the minute it expires
code_expired_inclusive(s, now) ==
    s.code_expires_at # NoTime /\ now >= s.code_expires_at

\* get_lockbox_code, line 1002
code_expired(s, now) ==
    s.code_expires_at # NoTime /\ now > s.code_expires_at

get_lockbox_code(showing_id, now) ==
    /\ IF showing_id \notin DOMAIN showings
       THEN response' = Resp(404, "showing not found", NoId)
       ELSE LET s == showings[showing_id]
            IN  IF s.status # "approved" \/ s.lockbox_code = NoCode
                THEN response' = Resp(400, "showing is not approved", NoId)
                ELSE IF code_expired(s, now)
                THEN response' = Resp(410, "code expired", NoId)
                ELSE IF s.code_expires_at = NoTime
                THEN \* None.isoformat() raises AttributeError
                     response' = Resp(500, "AttributeError", NoId)
                ELSE response' =
                        [status |-> 200, error |-> "", id |-> showing_id,
                         lockbox_code |-> s.lockbox_code,
                         expires_at |-> isoformat(s.code_expires_at)]
    /\ UNCHANGED <<properties, showings, blocked_times, activity_logs,
                   threads, share_vars, db_vars, aux_vars>>

---------------------------------------------------------------------------
(* The API routes, one request at a time *)

\* what the clock may read when a code is asked for: the minute the code of
\* a 0:00 showing expires, and the minute after the code of a 0:30 showing
\* has expired
NowInputs == {75, 106}

\* block requests: 0:00-1:00, the same inverted, and one that does not parse
BlockInputs == {<< <<0, 0>>, <<1, 0>> >>, << <<1, 0>>, <<0, 0>> >>,
                << BadIso, <<1, 0>> >>}
\* showing requests: every time with a name, and one without a name
ShowingInputs == {<<t, "Ann">> : t \in IsoInputs} \cup {<< <<0, 0>>, "" >>}

\* A request whose handler draws no lockbox code is taken once, not once per
\* possible draw.
DrawsOfRequest(prop_id) ==
    IF prop_id \in DOMAIN properties
       /\ properties[prop_id].auto_approve_showings
    THEN RandInts ELSE {7}

DrawsOfApprove(showing_id) ==
    IF showing_id \in DOMAIN showings
       /\ showings[showing_id].status = "pending"
    THEN RandInts ELSE {7}

DrawsOfReschedule(showing_id) ==
    IF showing_id \in DOMAIN showings
       /\ showings[showing_id].status = "approved"
    THEN RandInts ELSE {7}

Next ==
    \/ \E name_ok \in BOOLEAN, auto \in BOOLEAN :
          property_list(name_ok, auto, FALSE)
    \/ \E p \in PropIds, b \in BlockInputs : manage_blocks(p, b[1], b[2])
    \/ \E p \in PropIds, r \in ShowingInputs :
          \E n \in DrawsOfRequest(p) : showing_list(p, r[1], r[2], n)
    \/ \E id \in ShowingIds :
          \E n \in DrawsOfApprove(id) : approve_showing(id, n)
    \/ \E id \in ShowingIds : decline_showing(id)
    \/ \E id \in ShowingIds, t \in IsoInputs :
          \E n \in DrawsOfReschedule(id) : reschedule_showing(id, t, n)
    \/ \E id \in ShowingIds, now \in NowInputs : get_lockbox_code(id, now)

Spec == Init /\ [][Next]_vars

---------------------------------------------------------------------------
(* POST /showings served by two worker threads (app.run starts the        *)
(* threaded development server).  showing_list takes no lock, so another   *)
(* handler may run between its checks (lines 560-573) and its insert       *)
(* (lines 574-586).  Each thread serves one request.                       *)

showing_list_check(t, prop_id, sched_str, client_name) ==
    LET err == showing_list_error(prop_id, sched_str, client_name)
        req == [IdleThread EXCEPT !.prop_id = prop_id,
                                  !.sched_str = sched_str,
                                  !.client_name = client_name]
    IN  /\ threads[t].pc = "idle"
        /\ IF err # NoError
           THEN /\ threads' = [threads EXCEPT
                                 ![t] = [req EXCEPT !.pc = "done",
                                                    !.outcome = "refused"]]
                /\ response' = Resp(err[1], err[2], NoId)
           ELSE /\ threads' = [threads EXCEPT
                                 ![t] = [req EXCEPT !.pc = "checked"]]
                /\ UNCHANGED response
        /\ UNCHANGED <<properties, showings, blocked_times, activity_logs,
                       share_vars, db_vars, aux_vars>>

showing_list_insert(t, n) ==
    /\ threads[t].pc = "checked"
    /\ showing_list_create(threads[t].prop_id, threads[t].sched_str,
                           threads[t].client_name, n, Undelivered)
    /\ threads' = [threads EXCEPT ![t].pc = "done", ![t].outcome = "created"]
    /\ UNCHANGED <<properties, blocked_times, share_vars, db_vars, aux_vars>>

NextConc ==
    \/ \E auto \in BOOLEAN : property_list(TRUE, auto, FALSE)
    \/ \E t \in Threads, p \in PropIds, r \in ShowingInputs :
          showing_list_check(t, p, r[1], r[2])
    \/ \E t \in Threads :
          \E n \in DrawsOfRequest(threads[t].prop_id) :
             showing_list_insert(t, n)

SpecConc == Init /\ [][NextConc]_vars

\* C2: of two concurrent POST /showings for overlapping windows of one
\* property, whatever the interleaving of their checks and inserts, at most
\* one creates a showing.
C2_AtMostOneSucceeds ==
    \A t1 \in Threads, t2 \in Threads :
        (/\ t1 # t2
         /\ threads[t1].outcome = "created"
         /\ threads[t2].outcome = "created"
         /\ threads[t1].prop_id = threads[t2].prop_id)
        => ~(/\ fromisoformat(threads[t1].sched_str)
                  < fromisoformat(threads[t2].sched_str) + 60
             /\ fromisoformat(threads[t1].sched_str) + 60
                  > fromisoformat(threads[t2].sched_str))

---------------------------------------------------------------------------
(* Properties of the showing lifecycle, checked under Spec *)

Active(id) == showings[id].status \in {"pending", "approved"}

WindowsOverlap(a, b) == a < b + 60 /\ a + 60 > b

\* the newest entry of a property's log
Newest(p) == activity_logs[p][1]

Logged(p, type, id) ==
    /\ p \in DOMAIN activity_logs
    /\ \E i \in 1..Len(activity_logs[p]) :
          /\ activity_logs[p][i].type = type
          /\ activity_logs[p][i].details.showing_id = id

IsSixDigits(code) ==
    /\ Len(code) = 6
    /\ \A i \in 1..6 : code[i] \in 0..9

RECURSIVE DecimalValue(_)
DecimalValue(code) ==
    IF Len(code) = 0 THEN 0
    ELSE 10 * DecimalValue(SubSeq(code, 1, Len(code) - 1)) + code[Len(code)]

\* C1: after any sequence of request, approve, decline and reschedule
\* requests, two distinct showings of one property that are pending or
\* approved never have overlapping one-hour windows.
C1_NoDoubleBooking ==
    \A a \in DOMAIN showings, b \in DOMAIN showings :
        (/\ a # b
         /\ showings[a].property_id = showings[b].property_id
         /\ Active(a)
         /\ Active(b))
        => ~WindowsOverlap(showings[a].scheduled_at, showings[b].scheduled_at)

\* two active showings of one property back to back, the later one moved
\* there by a reschedule and the earlier one booked into the slot it left
C1_Witness ==
    \E a \in DOMAIN showings, b \in DOMAIN showings :
        /\ a # b
        /\ showings[a].property_id = showings[b].property_id
        /\ Active(a)
        /\ Active(b)
        /\ showings[b].scheduled_at = showings[a].scheduled_at + 60
        /\ Logged(showings[b].property_id, "showing_rescheduled", b)

C4_ApproveOnlyPending ==
    [][\A id \in ShowingIds, n \in RandInts :
          (/\ id \in DOMAIN showings
           /\ showings[id].status \in {"approved", "declined"}
           /\ approve_showing(id, n))
          => /\ response'.status = 400
             /\ response'.error = "only pending showings can be approved"
             /\ showings' = showings
             /\ activity_logs' = activity_logs]_vars

\* a refused approve with an approved showing in the store
C4_Witness ==
    /\ response.status = 400
    /\ response.error = "only pending showings can be approved"
    /\ \E id \in DOMAIN showings :
          /\ showings[id].status = "approved"
          /\ showings[id].lockbox_code # NoCode

C6_DeclinedIsTerminal ==
    [][\A id \in DOMAIN showings :
          showings[id].status = "declined"
            => showings'[id] = showings[id]]_vars

C9_RescheduleChangesCode ==
    [][\A id \in ShowingIds, t \in IsoInputs, n \in RandInts :
          (/\ id \in DOMAIN showings
           /\ showings[id].status = "approved"
           /\ response'.status = 200
           /\ reschedule_showing(id, t, n))
          => showings'[id].lockbox_code # showings[id].lockbox_code]_vars

\* C9 as amended: rescheduling an approved showing always replaces the
\* lockbox code by the six-digit rendering of a new random draw; it differs
\* from the previous code unless the draw repeats the previous code's
\* number.
C9_RescheduleRedrawsCode ==
    [][\A id \in ShowingIds, t \in IsoInputs, n \in RandInts :
          (/\ id \in DOMAIN showings
           /\ showings[id].status = "approved"
           /\ response'.status = 200
           /\ reschedule_showing(id, t, n))
          => /\ IsSixDigits(showings'[id].lockbox_code)
             /\ DecimalValue(showings'[id].lockbox_code) = n
             /\ (showings'[id].lockbox_code = showings[id].lockbox_code)
                  <=> (n = DecimalValue(showings[id].lockbox_code))]_vars

\* an approved showing that was just rescheduled and holds the very code it
\* was approved with
C9_Witness ==
    \E id \in DOMAIN showings :
        LET p == showings[id].property_id
        IN  /\ showings[id].status = "approved"
            /\ Newest(p).type = "showing_rescheduled"
            /\ Newest(p).details.showing_id = id
            /\ \E i \in 1..Len(activity_logs[p]) :
                  /\ activity_logs[p][i].type = "showing_approved"
                  /\ activity_logs[p][i].details.showing_id = id
                  /\ activity_logs[p][i].details.lockbox_code
                       = showings[id].lockbox_code

\* C10: a reschedule of a pending or approved showing to a start whose
\* window overlaps only the showing's own current window (no blocked range,
\* no other active showing of the property) is accepted and updates
\* scheduled_at.
C10_NoSelfConflict ==
    [][\A id \in ShowingIds, t \in GoodIso, n \in RandInts :
          (/\ id \in DOMAIN showings
           /\ Active(id)
           /\ WindowsOverlap(fromisoformat(t), showings[id].scheduled_at)
           /\ ~is_time_blocked(showings[id].property_id, fromisoformat(t),
                               fromisoformat(t) + 60)
           /\ \A o \in DOMAIN showings \ {id} :
                 (showings[o].property_id = showings[id].property_id
                  /\ Active(o))
                 => ~WindowsOverlap(fromisoformat(t),
                                    showings[o].scheduled_at)
           /\ reschedule_showing(id, t, n))
          => /\ response'.status = 200
             /\ showings'[id].scheduled_at = fromisoformat(t)]_vars

\* C11: an accepted reschedule keeps the showing's status; a pending showing
\* still has no lockbox code and no expiry afterwards; of the showing's
\* fields only scheduled_at changes, and lockbox_code and code_expires_at
\* only if the showing is approved; no other showing changes.
C11_RescheduleFrame ==
    [][\A id \in ShowingIds, t \in GoodIso, n \in RandInts :
          (/\ id \in DOMAIN showings
           /\ response'.status = 200
           /\ reschedule_showing(id, t, n))
          => /\ showings'[id].status = showings[id].status
             /\ showings[id].status = "pending"
                   => /\ showings'[id].lockbox_code = NoCode
                      /\ showings'[id].code_expires_at = NoTime
             /\ showings[id].status # "approved"
                   => showings'[id]
                        = [showings[id] EXCEPT
                             !.scheduled_at = fromisoformat(t)]
             /\ [showings'[id] EXCEPT
                   !.lockbox_code = NoCode, !.code_expires_at = NoTime]
                  = [showings[id] EXCEPT
                       !.scheduled_at = fromisoformat(t),
                       !.lockbox_code = NoCode, !.code_expires_at = NoTime]
             /\ \A o \in DOMAIN showings \ {id} :
                   showings'[o] = showings[o]]_vars

\* a pending showing that was just moved to 1:00 and still has no credential
C11_Witness ==
    \E id \in DOMAIN showings :
        LET p == showings[id].property_id
        IN  /\ showings[id].status = "pending"
            /\ response = Resp(200, "", id)
            /\ Newest(p).type = "showing_rescheduled"
            /\ Newest(p).details.showing_id = id
            /\ Newest(p).details.new_scheduled_at = <<1, 0>>
            /\ showings[id].scheduled_at = 60
            /\ showings[id].lockbox_code = NoCode

\* C12: get_lockbox_code answers 404 for an unknown id, 400 "showing is not
\* approved" for a pending or declined showing, 410 "code expired" for an
\* approved showing when now > code_expires_at, and otherwise 200 with
\* exactly the stored code and expiry; it changes no store.
C12_CodeOnlyWhileValid ==
    [][\A id \in ShowingIds, now \in NowInputs :
          get_lockbox_code(id, now)
          => /\ showings' = showings
             /\ activity_logs' = activity_logs
             /\ IF id \notin DOMAIN showings
                THEN response' = Resp(404, "showing not found", NoId)
                ELSE IF showings[id].status \in {"pending", "declined"}
                THEN response' = Resp(400, "showing is not approved", NoId)
                ELSE IF now > showings[id].code_expires_at
                THEN response' = Resp(410, "code expired", NoId)
                ELSE /\ response'.status = 200
                     /\ showings[id].status = "approved"
                     /\ now <= showings[id].code_expires_at
                     /\ response'.lockbox_code = showings[id].lockbox_code
                     /\ response'.expires_at
                          = isoformat(showings[id].code_expires_at)]_vars

\* the code of a rescheduled approved showing was just handed out
C12_Witness ==
    /\ response.status = 200
    /\ "lockbox_code" \in DOMAIN response
    /\ \E id \in DOMAIN showings :
          /\ response.id = id
          /\ response.lockbox_code = showings[id].lockbox_code
          /\ response.expires_at = <<1, 15>>
          /\ Logged(showings[id].property_id, "showing_rescheduled", id)

\* C13: once decline_showing has declined a pending showing, a request for
\* the same property and the same start, with no blocked range over the
\* window, is accepted: the declined showing no longer holds the slot.
C13_DeclineFreesSlot ==
    [][\A d \in ShowingIds, n \in RandInts :
          (/\ d \in DOMAIN showings
           /\ showings[d].status = "declined"
           /\ Newest(showings[d].property_id).type = "showing_declined"
           /\ Newest(showings[d].property_id).details.showing_id = d
           /\ ~is_time_blocked(showings[d].property_id,
                               showings[d].scheduled_at,
                               showings[d].scheduled_at + 60)
           /\ showing_list(showings[d].property_id,
                           isoformat(showings[d].scheduled_at), "Ann", n))
          => /\ response'.status = 201
             /\ response'.id \in DOMAIN showings' \ DOMAIN showings
             /\ showings'[response'.id].property_id
                  = showings[d].property_id
             /\ showings'[response'.id].scheduled_at
                  = showings[d].scheduled_at
             /\ showings'[response'.id].status = "pending"]_vars

\* a pending showing booked into the very slot of a declined one
C13_Witness ==
    \E d \in DOMAIN showings, e \in DOMAIN showings :
        /\ showings[d].status = "declined"
        /\ Logged(showings[d].property_id, "showing_declined", d)
        /\ showings[e].status = "pending"
        /\ showings[e].property_id = showings[d].property_id
        /\ showings[e].scheduled_at = showings[d].scheduled_at
        /\ response = Resp(201, "", e)

\* C15: a POST /showings for an unknown property, with a start that does not
\* parse, or for a window that is blocked or conflicts with an active
\* showing is refused (400 or 409), creates no showing, changes no showing
\* and records no event; a reschedule refused with 409 leaves the showing
\* and the activity log as they were.
C15_FailedRequestChangesNothing ==
    [][LET same == showings' = showings /\ activity_logs' = activity_logs
       IN
       /\ (same /\ response'.status \in {400, 409})
          \/ \A p \in PropIds, r \in ShowingInputs :
               ~(/\ \/ p \notin DOMAIN properties
                    \/ r[1] = BadIso
                    \/ /\ r[1] \in GoodIso
                       /\ \/ \E i \in 1..Len(dict_get(blocked_times, p,
                                                       << >>)) :
                                /\ fromisoformat(r[1])
                                      < blocked_times[p][i][2]
                                /\ fromisoformat(r[1]) + 60
                                      > blocked_times[p][i][1]
                          \/ \E o \in DOMAIN showings :
                                /\ showings[o].property_id = p
                                /\ Active(o)
                                /\ WindowsOverlap(fromisoformat(r[1]),
                                                  showings[o].scheduled_at)
                 /\ \E n \in RandInts : showing_list(p, r[1], r[2], n))
       /\ same
          \/ ~(/\ response'.status = 409
               /\ \E id \in ShowingIds, t \in IsoInputs, n \in RandInts :
                     reschedule_showing(id, t, n))]_vars

\* a request or a reschedule into the blocked hour was just refused, with a
\* pending showing in the store
C15_Witness ==
    /\ response = Resp(409, "requested time is blocked", NoId)
    /\ \E id \in DOMAIN showings :
          /\ showings[id].status = "pending"
          /\ showings[id].scheduled_at = 60
          /\ is_time_blocked(showings[id].property_id, 0, 60)

\* C16: an accepted POST /showings on a property with auto_approve_showings
\* returns a showing that is approved with a six-digit code and its expiry,
\* and records showing_requested and then showing_approved tagged auto for
\* it; on a property without the flag the showing is pending with no code
\* and only showing_requested is recorded.
C16_AutoApproveOnRequest ==
    [][\A p \in PropIds, t \in GoodIso, n \in RandInts :
          (/\ response'.status = 201
           /\ showing_list(p, t, "Ann", n))
          => LET id   == response'.id
                 s    == showings'[id]
                 old  == dict_get(activity_logs, p, << >>)
                 log  == activity_logs'[p]
             IN  /\ id \notin DOMAIN showings
                 /\ s.property_id = p
                 /\ s.scheduled_at = fromisoformat(t)
                 /\ IF properties[p].auto_approve_showings
                    THEN /\ s.status = "approved"
                         /\ IsSixDigits(s.lockbox_code)
                         /\ s.code_expires_at = fromisoformat(t) + 75
                         /\ Len(log) = Len(old) + 2
                         /\ SubSeq(log, 3, Len(log)) = old
                         /\ log[2].type = "showing_requested"
                         /\ log[2].details.showing_id = id
                         /\ log[1].type = "showing_approved"
                         /\ log[1].details.showing_id = id
                         /\ "auto" \in DOMAIN log[1].details
                         /\ log[1].details.auto = TRUE
                    ELSE /\ s.status = "pending"
                         /\ s.lockbox_code = NoCode
                         /\ s.code_expires_at = NoTime
                         /\ Len(log) = Len(old) + 1
                         /\ SubSeq(log, 2, Len(log)) = old
                         /\ log[1].type = "showing_requested"
                         /\ log[1].details.showing_id = id]_vars

\* an auto-approved 0:30 showing was just returned with the code 999999
C16_Witness ==
    \E id \in DOMAIN showings :
        LET p == showings[id].property_id
        IN  /\ response = Resp(201, "", id)
            /\ properties[p].auto_approve_showings
            /\ showings[id].status = "approved"
            /\ showings[id].lockbox_code = <<9, 9, 9, 9, 9, 9>>
            /\ showings[id].code_expires_at = 105
            /\ Len(activity_logs[p]) = 2
            /\ activity_logs[p][1].type = "showing_approved"
            /\ activity_logs[p][1].details.showing_id = id
            /\ activity_logs[p][2].type = "showing_requested"

---------------------------------------------------------------------------
(* is_time_blocked and has_conflict as functions of the stores: the stores *)
(* hold any blocked ranges and any showings, overlapping ones included,    *)
(* and each step calls one of the two on one window.                       *)

StoredRanges  == {<<60, 120>>, <<30, 45>>}
StoredStarts  == {0, 60}
StoredStatus  == {"pending", "approved", "declined"}
Windows       == {<<0, 60>>, <<30, 90>>, <<60, 120>>, <<0, 30>>}

StoredShowing(id, p, t, st) ==
    [id |-> id, property_id |-> p, client_name |-> "Ann",
     scheduled_at |-> t, status |-> st,
     lockbox_code |-> IF st = "approved" THEN generate_lockbox_code(7)
                      ELSE NoCode,
     code_expires_at |-> IF st = "approved" THEN t + CodeLifetime
                         ELSE NoTime]

InitOverlap ==
    /\ properties = [p \in PropIds |->
                       [auto_approve_showings |-> FALSE,
                        requires_disclosure_approval |-> FALSE]]
    /\ \E k \in 0..2 :
          \E ps \in [1..k -> PropIds], ts \in [1..k -> StoredStarts],
             sts \in [1..k -> StoredStatus] :
             showings = [id \in 1..k |->
                           StoredShowing(id, ps[id], ts[id], sts[id])]
    /\ \E k \in 0..2 :
          \E bs \in [1..k -> StoredRanges] :
             blocked_times = IF k = 0 THEN << >> ELSE (1 :> bs)
    /\ activity_logs = << >>
    /\ response = Resp(0, "", NoId)
    /\ threads = [t \in Threads |-> IdleThread]
    /\ disclosures = << >>
    /\ packages = << >>
    /\ package_shares = << >>
    /\ disclosure_feedback_store = << >>
    /\ PropertyModel = << >>
    /\ ShowingModel = << >>
    /\ tours = << >>
    /\ guest_requests = << >>
    /\ app_properties = << >>
    /\ app_showings = << >>

call_is_time_blocked(property_id, start, end) ==
    /\ response' = [fn |-> "is_time_blocked", property_id |-> property_id,
                    start |-> start, end |-> end,
                    result |-> is_time_blocked(property_id, start, end)]
    /\ UNCHANGED <<properties, showings, blocked_times, activity_logs,
                   threads, share_vars, db_vars, aux_vars>>

call_has_conflict(property_id, start, end) ==
    /\ response' = [fn |-> "has_conflict", property_id |-> property_id,
                    start |-> start, end |-> end,
                    result |-> has_conflict(property_id, start, end)]
    /\ UNCHANGED <<properties, showings, blocked_times, activity_logs,
                   threads, share_vars, db_vars, aux_vars>>

NextOverlap ==
    \/ \E p \in PropIds, w \in Windows : call_is_time_blocked(p, w[1], w[2])
    \/ \E p \in PropIds, w \in Windows : call_has_conflict(p, w[1], w[2])

SpecOverlap == InitOverlap /\ [][NextOverlap]_vars

\* C14: is_time_blocked is true iff some blocked range (b_start, b_end) of
\* the property has start < b_end and end > b_start; has_conflict is true
\* iff some showing of the property that is not declined has
\* start < s + 60 and end > s for its scheduled_at s.  A window that ends
\* when a block starts, or starts when a showing ends, is neither.
C14_OverlapIsHalfOpen ==
    /\ ("fn" \in DOMAIN response /\ response.fn = "is_time_blocked")
         => LET p == response.property_id
                ranges == IF p \in DOMAIN blocked_times
                          THEN {blocked_times[p][i] :
                                   i \in 1..Len(blocked_times[p])}
                          ELSE {}
            IN  /\ response.result
                      <=> \E b \in ranges :
                             response.start < b[2] /\ response.end > b[1]
                /\ (\A b \in ranges :
                       response.end <= b[1] \/ response.start >= b[2])
                      => ~response.result
    /\ ("fn" \in DOMAIN response /\ response.fn = "has_conflict")
         => LET p == response.property_id
                starts == {showings[id].scheduled_at :
                             id \in {x \in DOMAIN showings :
                                        /\ showings[x].property_id = p
                                        /\ showings[x].status
                                             \in {"pending", "approved"}}}
            IN  /\ response.result
                      <=> \E t \in starts :
                             response.start < t + 60 /\ response.end > t
                /\ (\A t \in starts :
                       response.end <= t \/ response.start >= t + 60)
                      => ~response.result

\* has_conflict found no conflict for a window that starts when an approved
\* showing ends and holds a declined showing, while the window 0:00-1:00 of
\* property 1 is not blocked by the range that starts at 1:00
C14_Witness ==
    /\ "fn" \in DOMAIN response
    /\ response.fn = "has_conflict"
    /\ ~response.result
    /\ \E a \in DOMAIN showings, d \in DOMAIN showings :
          /\ showings[a].property_id = response.property_id
          /\ showings[a].status = "approved"
          /\ showings[a].scheduled_at + 60 = response.start
          /\ showings[d].property_id = response.property_id
          /\ showings[d].status = "declined"
          /\ showings[d].scheduled_at = response.start
    /\ ~is_time_blocked(1, 0, 60)
    /\ \E i \in 1..Len(dict_get(blocked_times, 1, << >>)) :
          blocked_times[1][i][1] = 60

---------------------------------------------------------------------------
(* The disclosure workflow: uploads, packages, shares, downloads, feedback *)

MaxShares      == 2     \* shares created
MaxShareEvents == 5     \* activity events recorded under SpecShares

PkgIds   == {1, 2}      \* the packages that get created
ShareIds == 1..MaxShares

\* werkzeug's secure_filename on the names the model sends: path components
\* are dropped, a plain name is kept
secure_filename(fn) == IF fn = "../a.pdf" THEN "a.pdf" ELSE fn

\* int(data.get("rating")): raises unless the value is a number
int_valid(v) == v \in {"0", "5"}

int(v) == IF v = "5" THEN 5 ELSE 0

NextPkgId   == Cardinality(DOMAIN packages) + 1          \* str(uuid.uuid4())
NextShareId == Cardinality(DOMAIN package_shares) + 1    \* str(uuid.uuid4())

\* the frame of a handler of the disclosure workflow that writes none of the
\* scheduling stores
UnchangedScheduling ==
    UNCHANGED <<showings, blocked_times, threads, db_vars, aux_vars>>

(* POST /properties/<property_id>/disclosures *)

property_disclosures(property_id, raw_name) ==
    LET filename == secure_filename(raw_name)
    IN
    /\ IF property_id \notin DOMAIN properties
       THEN /\ response' = Resp(404, "property not found", NoId)
            /\ UNCHANGED <<disclosures, activity_logs>>
       ELSE IF filename = ""
       THEN /\ response' = Resp(400, "invalid filename", NoId)
            /\ UNCHANGED <<disclosures, activity_logs>>
       ELSE /\ TotalEvents < MaxShareEvents
            /\ disclosures' =
                 (property_id :>
                    (dict_get(disclosures, property_id, {}) \cup {filename}))
                 @@ disclosures
            /\ activity_logs' =
                 log_event(activity_logs, property_id, "upload_disclosure",
                           [filename |-> filename])
            /\ response' = Resp(201, "", NoId)
    /\ UNCHANGED <<properties, packages, package_shares,
                   disclosure_feedback_store>>
    /\ UnchangedScheduling

(* POST /properties/<property_id>/packages *)

manage_packages(property_id, name, files) ==
    LET fail(status, error) ==
            /\ response' = Resp(status, error, NoId)
            /\ UNCHANGED <<packages, activity_logs>>
        prop_files == dict_get(disclosures, property_id, {})
        pkg_id == NextPkgId
    IN
    /\ IF property_id \notin DOMAIN properties
       THEN fail(404, "property not found")
       ELSE IF name = "" \/ files = << >>
       THEN fail(400, "name and non-empty files list required")
       ELSE IF \E i \in 1..Len(files) : secure_filename(files[i]) \notin prop_files
       THEN fail(400, "file not found for property")
       ELSE /\ pkg_id \in PkgIds
            /\ TotalEvents < MaxShareEvents
            /\ packages' =
                 (pkg_id :>
                    [id |-> pkg_id, property_id |-> property_id,
                     name |-> name,
                     files |-> [i \in 1..Len(files) |->
                                  secure_filename(files[i])]])
                 @@ packages
            /\ activity_logs' =
                 log_event(activity_logs, property_id, "package_created",
                           [package_id |-> pkg_id, name |-> name,
                            files |-> files])
            /\ response' = Resp(201, "", pkg_id)
    /\ UNCHANGED <<properties, disclosures, package_shares,
                   disclosure_feedback_store>>
    /\ UnchangedScheduling

(* Share creation: the four lines shared by create_share, *)
(* request_disclosure and ui_request_disclosure            *)

\* a share that is approved whatever the property asks for
share_auto_always(prop) == TRUE

\* auto = not prop.get("requires_disclosure_approval")
share_auto(prop) == ~dict_get(prop, "requires_disclosure_approval", FALSE)

new_share(share_id, package_id, prop_id, buyer_name, auto) ==
    [id |-> share_id, package_id |-> package_id, property_id |-> prop_id,
     buyer_name |-> buyer_name, downloads |-> << >>, approved |-> auto]

(* POST /packages/<package_id>/share *)

create_share(package_id, buyer_name) ==
    LET share_id == NextShareId
        prop_id  == packages[package_id].property_id
        auto     == share_auto(dict_get(properties, prop_id, << >>))
    IN
    /\ IF package_id \notin DOMAIN packages
       THEN /\ response' = Resp(404, "package not found", NoId)
            /\ UNCHANGED <<package_shares, activity_logs>>
       ELSE IF buyer_name = ""
       THEN /\ response' = Resp(400, "buyer_name is required", NoId)
            /\ UNCHANGED <<package_shares, activity_logs>>
       ELSE /\ share_id <= MaxShares
            /\ TotalEvents < MaxShareEvents
            /\ package_shares' =
                 (share_id :> new_share(share_id, package_id, prop_id,
                                        buyer_name, auto))
                 @@ package_shares
            /\ activity_logs' =
                 log_event(activity_logs, prop_id, "share_created",
                           [share_id |-> share_id, package_id |-> package_id,
                            buyer_name |-> buyer_name, auto |-> auto])
            /\ response' = Resp(201, "", share_id)
    /\ UNCHANGED <<properties, disclosures, packages,
                   disclosure_feedback_store>>
    /\ UnchangedScheduling

(* POST /properties/<property_id>/disclosures/request *)

\* request_disclosure that accepts a package of any property
request_disclosure_any_package(property_id, pkg_id, buyer_name) ==
    LET fail(status, error) ==
            /\ response' = Resp(status, error, NoId)
            /\ UNCHANGED <<package_shares, activity_logs>>
        share_id == NextShareId
        auto     == share_auto(dict_get(properties, property_id, << >>))
    IN
    /\ IF property_id \notin DOMAIN properties
       THEN fail(404, "property not found")
       ELSE IF pkg_id = NoId \/ buyer_name = ""
       THEN fail(400, "package_id and buyer_name are required")
       ELSE IF pkg_id \notin DOMAIN packages
       THEN fail(404, "package not found for property")
       ELSE /\ share_id <= MaxShares
            /\ TotalEvents < MaxShareEvents
            /\ package_shares' =
                 (share_id :> new_share(share_id, pkg_id, property_id,
                                        buyer_name, auto))
                 @@ package_shares
            /\ activity_logs' =
                 log_event(activity_logs, property_id, "disclosure_requested",
                           [share_id |-> share_id, package_id |-> pkg_id,
                            buyer_name |-> buyer_name, auto |-> auto])
            /\ response' = Resp(201, "", share_id)
    /\ UNCHANGED <<properties, disclosures, packages,
                   disclosure_feedback_store>>
    /\ UnchangedScheduling

\* the handler when the deliveries to `failing' fail: the event is logged
\* before anyone is notified
request_disclosure_when(property_id, pkg_id, buyer_name, failing) ==
    LET fail(status, error) ==
            /\ response' = Resp(status, error, NoId)
            /\ UNCHANGED <<package_shares, activity_logs>>
        share_id == NextShareId
        auto     == share_auto(dict_get(properties, property_id, << >>))
    IN
    /\ IF property_id \notin DOMAIN properties
       THEN fail(404, "property not found")
       ELSE IF pkg_id = NoId \/ buyer_name = ""
       THEN fail(400, "package_id and buyer_name are required")
       ELSE IF pkg_id \notin DOMAIN packages
               \/ packages[pkg_id].property_id # property_id
       THEN fail(404, "package not found for property")
       ELSE /\ share_id <= MaxShares
            /\ TotalEvents < MaxShareEvents
            /\ package_shares' =
                 (share_id :> new_share(share_id, pkg_id, property_id,
                                        buyer_name, auto))
                 @@ package_shares
            /\ activity_logs' =
                 log_event(activity_logs, property_id, "disclosure_requested",
                           [share_id |-> share_id, package_id |-> pkg_id,
                            buyer_name |-> buyer_name, auto |-> auto])
            /\ response' = IF notify_escapes(failing) THEN ServerError
                           ELSE Resp(201, "", share_id)
    /\ UNCHANGED <<properties, disclosures, packages,
                   disclosure_feedback_store>>
    /\ UnchangedScheduling

request_disclosure(property_id, pkg_id, buyer_name) ==
    request_disclosure_when(property_id, pkg_id, buyer_name, Undelivered)

(* POST /properties/<property_id>/request_disclosure_ui *)

ui_request_disclosure(property_id, package_id, buyer_name) ==
    LET share_id == NextShareId
        auto     == share_auto(properties[property_id])
    IN
    /\ IF property_id \notin DOMAIN properties
       THEN /\ response' = Resp(404, "Property not found", NoId)
            /\ UNCHANGED <<package_shares, activity_logs>>
       ELSE IF \/ package_id = NoId \/ buyer_name = ""
               \/ package_id \notin DOMAIN packages
               \/ packages[package_id].property_id # property_id
       THEN \* redirect(url_for("ui_property_detail"))
            /\ response' = Resp(302, "", NoId)
            /\ UNCHANGED <<package_shares, activity_logs>>
       ELSE /\ share_id <= MaxShares
            /\ TotalEvents < MaxShareEvents
            /\ package_shares' =
                 (share_id :> new_share(share_id, package_id, property_id,
                                        buyer_name, auto))
                 @@ package_shares
            /\ activity_logs' =
                 log_event(activity_logs, property_id, "disclosure_requested",
                           [share_id |-> share_id, package_id |-> package_id,
                            buyer_name |-> buyer_name, auto |-> auto])
            /\ response' = Resp(302, "", NoId)
    /\ UNCHANGED <<properties, disclosures, packages,
                   disclosure_feedback_store>>
    /\ UnchangedScheduling

(* GET /share/<share_id>/files/<path:filename> *)

\* share_download that hands the file out whatever the approval
download_allowed_always(share) == TRUE

\* share_download, line 1401
download_allowed(share) == dict_get(share, "approved", FALSE)

\* share_download that withdraws the approval once the file was handed out
download_update_single_use(share, safe_fn) ==
    [share EXCEPT !.downloads = Append(@, [filename |-> safe_fn]),
                  !.approved = FALSE]

\* share_download, line 1409
download_update(share, safe_fn) ==
    [share EXCEPT !.downloads = Append(@, [filename |-> safe_fn])]

share_download(share_id, filename) ==
    LET fail(status, error) ==
            /\ response' = Resp(status, error, NoId)
            /\ UNCHANGED <<package_shares, activity_logs>>
        share   == package_shares[share_id]
        pkg     == packages[share.package_id]
        safe_fn == secure_filename(filename)
        prop_id == pkg.property_id
    IN
    /\ IF share_id \notin DOMAIN package_shares
       THEN fail(404, "share not found")
       ELSE IF share.package_id \notin DOMAIN packages
       THEN fail(404, "package not found")
       ELSE IF \A i \in 1..Len(pkg.files) : pkg.files[i] # safe_fn
       THEN fail(404, "file not found in package")
       ELSE IF ~download_allowed(share)
       THEN fail(403, "download not approved")
       ELSE IF safe_fn \notin dict_get(disclosures, prop_id, {})
       THEN fail(404, "file not found")
       ELSE /\ TotalEvents < MaxShareEvents
            /\ package_shares' =
                 [package_shares EXCEPT
                    ![share_id] = download_update(share, safe_fn)]
            /\ activity_logs' =
                 log_event(activity_logs, prop_id, "share_download",
                           [share_id |-> share_id,
                            buyer_name |-> share.buyer_name,
                            filename |-> safe_fn])
            /\ response' = Resp(200, "", share_id)
    /\ UNCHANGED <<properties, disclosures, packages,
                   disclosure_feedback_store>>
    /\ UnchangedScheduling

(* POST /share/<share_id>/feedback *)

share_feedback(share_id, rating_raw, comment) ==
    LET fail(status, error) ==
            /\ response' = Resp(status, error, NoId)
            /\ UNCHANGED <<disclosure_feedback_store, activity_logs>>
        share  == package_shares[share_id]
        rating == int(rating_raw)
        entry  == [rating |-> rating, comment |-> comment,
                   buyer_name |-> share.buyer_name]
    IN
    /\ IF share_id \notin DOMAIN package_shares
       THEN fail(404, "share not found")
       ELSE IF ~int_valid(rating_raw)
       THEN fail(400, "rating must be an integer")
       ELSE IF rating < 1 \/ rating > 5 \/ comment = ""
       THEN fail(400, "rating must be 1-5 and comment required")
       ELSE /\ TotalEvents < MaxShareEvents
            /\ disclosure_feedback_store' =
                 (share_id :>
                    Append(dict_get(disclosure_feedback_store, share_id,
                                    << >>), entry))
                 @@ disclosure_feedback_store
            /\ activity_logs' =
                 log_event(activity_logs, share.property_id,
                           "share_feedback_submitted",
                           [share_id |-> share_id,
                            buyer_name |-> share.buyer_name,
                            rating |-> rating, comment |-> comment])
            /\ response' = Resp(201, "", share_id)
    /\ UNCHANGED <<properties, disclosures, packages, package_shares>>
    /\ UnchangedScheduling

(* POST /share/<share_id>/approve *)

\* approve_share that approves again what is approved already
already_approved_never(share) == FALSE

\* approve_share, line 1638, and ui_approve_share, line 3521
already_approved(share) == dict_get(share, "approved", FALSE)

\* the handler when the deliveries to `failing' fail: the event is logged
\* before anyone is notified
approve_share_when(share_id, failing) ==
    LET share == package_shares[share_id]
    IN
    /\ IF share_id \notin DOMAIN package_shares
       THEN /\ response' = Resp(404, "share not found", NoId)
            /\ UNCHANGED <<package_shares, activity_logs>>
       ELSE IF already_approved(share)
       THEN /\ response' = Resp(200, "", share_id)
            /\ UNCHANGED <<package_shares, activity_logs>>
       ELSE /\ TotalEvents < MaxShareEvents
            /\ package_shares' =
                 [package_shares EXCEPT ![share_id].approved = TRUE]
            /\ activity_logs' =
                 log_event(activity_logs, share.property_id, "share_approved",
                           [share_id |-> share_id,
                            buyer_name |-> share.buyer_name])
            /\ response' = IF notify_escapes(failing) THEN ServerError
                           ELSE Resp(200, "", share_id)
    /\ UNCHANGED <<properties, disclosures, packages,
                   disclosure_feedback_store>>
    /\ UnchangedScheduling

approve_share(share_id) ==
    approve_share_when(share_id, Undelivered)

(* POST /share/<share_id>/approve_ui *)

ui_approve_share(share_id) ==
    LET share == package_shares[share_id]
    IN
    /\ IF share_id \notin DOMAIN package_shares
       THEN /\ response' = Resp(404, "Share not found", NoId)
            /\ UNCHANGED <<package_shares, activity_logs>>
       ELSE IF ~already_approved(share)
       THEN /\ TotalEvents < MaxShareEvents
            /\ package_shares' =
                 [package_shares EXCEPT ![share_id].approved = TRUE]
            /\ activity_logs' =
                 log_event(activity_logs, share.property_id, "share_approved",
                           [share_id |-> share_id,
                            buyer_name |-> share.buyer_name])
            /\ response' = Resp(302, "", NoId)
       ELSE /\ response' = Resp(302, "", NoId)
            /\ UNCHANGED <<package_shares, activity_logs>>
    /\ UNCHANGED <<properties, disclosures, packages,
                   disclosure_feedback_store>>
    /\ UnchangedScheduling

(* The disclosure workflow, one request at a time *)

UploadInputs   == {"a.pdf", ""}
PackageInputs  == {<<"Docs", <<"../a.pdf">> >>, <<"Docs", <<"b.pdf">> >>,
                   <<"", <<"a.pdf">> >>}
BuyerInputs    == {"Bo", ""}
DownloadInputs == {"a.pdf", "b.pdf"}
FeedbackInputs == {<<"x", "ok">>, <<"0", "ok">>, <<"5", "">>, <<"5", "ok">>}

NextShares ==
    \/ \E disclosure \in BOOLEAN : property_list(TRUE, FALSE, disclosure)
    \/ \E p \in PropIds, f \in UploadInputs : property_disclosures(p, f)
    \/ \E p \in PropIds, i \in PackageInputs : manage_packages(p, i[1], i[2])
    \/ \E k \in PkgIds, b \in BuyerInputs : create_share(k, b)
    \/ \E p \in PropIds, k \in PkgIds \cup {NoId}, b \in BuyerInputs :
          request_disclosure(p, k, b)
    \/ \E p \in PropIds, k \in PkgIds \cup {NoId}, b \in BuyerInputs :
          ui_request_disclosure(p, k, b)
    \/ \E id \in ShareIds, f \in DownloadInputs : share_download(id, f)
    \/ \E id \in ShareIds, i \in FeedbackInputs :
          share_feedback(id, i[1], i[2])
    \/ \E id \in ShareIds : approve_share(id)
    \/ \E id \in ShareIds : ui_approve_share(id)

SpecShares == Init /\ [][NextShares]_vars

---------------------------------------------------------------------------
(* Properties of the disclosure workflow, checked under SpecShares *)

SharesLogged(p, type, id) ==
    /\ p \in DOMAIN activity_logs
    /\ \E i \in 1..Len(activity_logs[p]) :
          /\ activity_logs[p][i].type = type
          /\ activity_logs[p][i].details.share_id = id

\* C17: every share is created with approved equal to the negation of the
\* requires_disclosure_approval flag its property has when the share is
\* created.
C17_ShareStartsPerPolicy ==
    [][\A id \in DOMAIN package_shares' \ DOMAIN package_shares :
          LET share == package_shares'[id]
          IN  /\ share.property_id \in DOMAIN properties
              /\ share.approved
                   = ~properties[share.property_id]
                          .requires_disclosure_approval]_vars

\* a share just requested for a property that asks for approval, stored
\* unapproved and logged with auto false
C17_Witness ==
    \E id \in DOMAIN package_shares :
        LET p == package_shares[id].property_id
        IN  /\ properties[p].requires_disclosure_approval
            /\ ~package_shares[id].approved
            /\ response = Resp(201, "", id)
            /\ Newest(p).type = "disclosure_requested"
            /\ Newest(p).details.share_id = id
            /\ Newest(p).details.auto = FALSE

\* C18: a share that is approved stays stored and approved in every later
\* state, whatever request, approval, download or feedback follows.
C18_ApprovalIsOneWay ==
    [][\A id \in DOMAIN package_shares :
          package_shares[id].approved
            => /\ id \in DOMAIN package_shares'
               /\ package_shares'[id].approved]_vars

\* a share that was approved by hand and has been downloaded from since
C18_Witness ==
    \E id \in DOMAIN package_shares :
        /\ package_shares[id].approved
        /\ properties[package_shares[id].property_id]
              .requires_disclosure_approval
        /\ SharesLogged(package_shares[id].property_id, "share_approved", id)
        /\ Len(package_shares[id].downloads) = 1
        /\ Newest(package_shares[id].property_id).type = "share_download"

\* the share_approved events recorded for a share
ApprovalEvents(id) ==
    LET p == package_shares[id].property_id
    IN  {i \in 1..Len(dict_get(activity_logs, p, << >>)) :
            /\ activity_logs[p][i].type = "share_approved"
            /\ activity_logs[p][i].details.share_id = id}

\* C19: approve_share on a share that is approved already (auto-approved
\* ones included) answers 200, changes no store and records no event; so
\* no share ever has more than one share_approved event, and approving
\* twice leaves the state and the log that approving once leaves.
C19_ApproveShareIdempotent ==
    [][/\ \A id \in DOMAIN package_shares :
            /\ Cardinality(ApprovalEvents(id)) <= 1
            /\ (package_shares[id].approved /\ approve_share(id))
                  => /\ response' = Resp(200, "", id)
                     /\ package_shares' = package_shares
                     /\ activity_logs' = activity_logs
                     /\ disclosure_feedback_store'
                          = disclosure_feedback_store
       /\ \A id \in DOMAIN package_shares' :
            Cardinality(ApprovalEvents(id)') <= 1]_vars

\* approve_share just answered 200 for an auto-approved share, whose
\* property still has the creation of the share as its newest event
C19_Witness ==
    \E id \in DOMAIN package_shares :
        LET p == package_shares[id].property_id
        IN  /\ response = Resp(200, "", id)
            /\ package_shares[id].approved
            /\ ~properties[p].requires_disclosure_approval
            /\ ApprovalEvents(id) = {}
            /\ Newest(p).type = "share_created"
            /\ Newest(p).details.share_id = id

\* the share_download events recorded for a share
DownloadEvents(id) ==
    LET p == package_shares[id].property_id
    IN  {i \in 1..Len(dict_get(activity_logs, p, << >>)) :
            /\ activity_logs[p][i].type = "share_download"
            /\ activity_logs[p][i].details.share_id = id}

InPackage(id, f) ==
    \E i \in 1..Len(packages[package_shares[id].package_id].files) :
        packages[package_shares[id].package_id].files[i] = secure_filename(f)

\* what C20 says of an accepted download and of the download records
DownloadsAreCounted(id, f) ==
    /\ Len(package_shares[id].downloads) = Cardinality(DownloadEvents(id))
    /\ (package_shares[id].approved /\ share_download(id, f))
          => IF response'.status = 200
             THEN LET p == package_shares[id].property_id
                  IN  /\ package_shares'
                           = [package_shares EXCEPT ![id].downloads =
                                Append(@, [filename |-> secure_filename(f)])]
                      /\ Len(activity_logs'[p]) = Len(activity_logs[p]) + 1
                      /\ SubSeq(activity_logs'[p], 2, Len(activity_logs'[p]))
                           = activity_logs[p]
                      /\ activity_logs'[p][1].type = "share_download"
                      /\ activity_logs'[p][1].details.share_id = id
             ELSE /\ package_shares' = package_shares
                  /\ activity_logs' = activity_logs

\* C20 as claimed: share_download on an unapproved share answers 403
\* "download not approved" and adds no download record and no event; on an
\* approved share every accepted download appends exactly one download
\* record and one share_download event, so the share has as many download
\* records as accepted downloads.
C20_DownloadNeedsApproval ==
    [][\A id \in DOMAIN package_shares, f \in DownloadInputs :
          /\ DownloadsAreCounted(id, f)
          /\ (~package_shares[id].approved /\ share_download(id, f))
                => /\ response' = Resp(403, "download not approved", NoId)
                   /\ package_shares' = package_shares
                   /\ activity_logs' = activity_logs]_vars

\* C20 as amended: on an unapproved share a download of a file of the
\* share's package answers 403 "download not approved", and a download of
\* any other file answers 404 "file not found in package"; either way no
\* download record and no event is added; the rest as claimed.
C20_DownloadNeedsApprovalOrFails ==
    [][\A id \in DOMAIN package_shares, f \in DownloadInputs :
          /\ DownloadsAreCounted(id, f)
          /\ (~package_shares[id].approved /\ share_download(id, f))
                => /\ response'
                        = IF InPackage(id, f)
                          THEN Resp(403, "download not approved", NoId)
                          ELSE Resp(404, "file not found in package", NoId)
                   /\ package_shares' = package_shares
                   /\ activity_logs' = activity_logs]_vars

\* the second download from a share was just accepted
C20_Witness ==
    \E id \in DOMAIN package_shares :
        /\ response = Resp(200, "", id)
        /\ package_shares[id].approved
        /\ Len(package_shares[id].downloads) = 2
        /\ Cardinality(DownloadEvents(id)) = 2

\* C21: request_disclosure for an unknown property, an unknown package or a
\* package of another property, and create_share for an unknown package,
\* answer 404, store no share and record no event; so every stored share
\* names the property of its package.  (A step either answers 404 and
\* leaves shares and log alone, or is no such request.)
C21_ShareNeedsItsPackage ==
    [][/\ \/ /\ response'.status = 404
             /\ package_shares' = package_shares
             /\ activity_logs' = activity_logs
          \/ /\ \A p \in PropIds, k \in PkgIds :
                   ~(/\ \/ p \notin DOMAIN properties
                        \/ k \notin DOMAIN packages
                        \/ packages[k].property_id # p
                     /\ request_disclosure(p, k, "Bo"))
             /\ \A k \in PkgIds :
                   ~(k \notin DOMAIN packages /\ create_share(k, "Bo"))
       /\ \A id \in DOMAIN package_shares' :
            /\ package_shares'[id].package_id \in DOMAIN packages'
            /\ package_shares'[id].property_id
                 = packages'[package_shares'[id].package_id].property_id]_vars

\* with a share stored for property 1, a request for property 2 naming a
\* package of property 1 was just refused
C21_Witness ==
    /\ response = Resp(404, "package not found for property", NoId)
    /\ DOMAIN properties = {1, 2}
    /\ DOMAIN packages = {1, 2}
    /\ \A k \in DOMAIN packages : packages[k].property_id = 1
    /\ \E id \in DOMAIN package_shares : package_shares[id].property_id = 1

---------------------------------------------------------------------------
(* Properties of the activity log *)

\* C22: every step leaves each property's previous log as the unmodified
\* tail of its new log: events are only inserted at the front, none is
\* changed, reordered or removed.
C22_LogIsAppendOnly ==
    [][\A p \in DOMAIN activity_logs :
          /\ p \in DOMAIN activity_logs'
          /\ Len(activity_logs'[p]) >= Len(activity_logs[p])
          /\ SubSeq(activity_logs'[p],
                    Len(activity_logs'[p]) - Len(activity_logs[p]) + 1,
                    Len(activity_logs'[p]))
               = activity_logs[p]]_vars

\* a log of three events: an auto-approved request put two in front of an
\* older request
C22_Witness ==
    \E p \in DOMAIN activity_logs :
        /\ Len(activity_logs[p]) = 3
        /\ activity_logs[p][1].type = "showing_rescheduled"
        /\ activity_logs[p][2].type = "showing_approved"
        /\ activity_logs[p][3].type = "showing_requested"

\* the events a step puts in front of a property's log
NewEvents(p) ==
    SubSeq(dict_get(activity_logs', p, << >>), 1,
           Len(dict_get(activity_logs', p, << >>))
             - Len(dict_get(activity_logs, p, << >>)))

OtherLogsUnchanged(p) ==
    \A q \in PropIds \ {p} :
        dict_get(activity_logs', q, << >>) = dict_get(activity_logs, q, << >>)

\* the step recorded exactly the events of these types, newest first, for
\* showing id in the log of property p, and nothing in any other log
Recorded(p, id, types) ==
    /\ Len(NewEvents(p)) = Len(types)
    /\ \A i \in 1..Len(types) :
          /\ NewEvents(p)[i].type = types[i]
          /\ NewEvents(p)[i].details.showing_id = id
    /\ OtherLogsUnchanged(p)

C24_RescheduleLogsOldAndNew ==
    [][\A id \in DOMAIN showings, t \in GoodIso :
          (/\ response'.status = 200
           /\ \E n \in RandInts : reschedule_showing(id, t, n))
          => LET details == NewEvents(showings[id].property_id)[1].details
             IN  /\ details.new_scheduled_at
                      = isoformat(showings'[id].scheduled_at)
                 /\ \E k \in DOMAIN details
                              \ {"showing_id", "client_name",
                                  "new_scheduled_at"} :
                       details[k] = isoformat(showings[id].scheduled_at)]_vars

---------------------------------------------------------------------------
(* Blocked ranges: the API route and the UI route that add them *)

\* list.sort(key=lambda x: x[0]): stable, ascending by start
RECURSIVE sort_by_start(_)
sort_by_start(l) ==
    IF l = << >> THEN << >>
    ELSE LET i == CHOOSE k \in 1..Len(l) :
                     /\ \A j \in 1..Len(l) : l[k][1] <= l[j][1]
                     /\ \A j \in 1..(k - 1) : l[j][1] > l[k][1]
         IN  <<l[i]>> \o sort_by_start(SubSeq(l, 1, i - 1)
                                       \o SubSeq(l, i + 1, Len(l)))

\* ui_add_block_time whose overlap loop finds nothing
overlaps_never(property_id, start_dt, end_dt) == FALSE

\* the overlap loop of ui_add_block_time
overlaps(property_id, start_dt, end_dt) ==
    LET l == dict_get(blocked_times, property_id, << >>)
    IN  \E i \in 1..Len(l) : start_dt < l[i][2] /\ end_dt > l[i][1]

(* POST /properties/<property_id>/block (form of the property page) *)

ui_add_block_time(authenticated, property_id, start_str, end_str) ==
    /\ IF ~authenticated
       THEN /\ response' = Resp(302, "", NoId)
            /\ UNCHANGED blocked_times
       ELSE IF property_id \notin DOMAIN properties
       THEN /\ response' = Resp(404, "Property not found", NoId)
            /\ UNCHANGED blocked_times
       ELSE /\ response' = Resp(302, "", NoId)
            /\ IF ~(iso_valid(start_str) /\ iso_valid(end_str))
               THEN UNCHANGED blocked_times
               ELSE LET start_dt == fromisoformat(start_str)
                        end_dt   == fromisoformat(end_str)
                    IN  IF end_dt <= start_dt
                           \/ overlaps(property_id, start_dt, end_dt)
                        THEN UNCHANGED blocked_times
                        ELSE blocked_times' =
                               (property_id :>
                                  sort_by_start(
                                    Append(dict_get(blocked_times,
                                                    property_id, << >>),
                                           <<start_dt, end_dt>>)))
                               @@ blocked_times
    /\ UNCHANGED <<properties, showings, activity_logs, threads,
                   share_vars, db_vars, aux_vars>>

\* ranges sent to either route: overlapping, nested, touching and disjoint
\* ones, an empty one, an inverted one and one that does not parse
BlockRanges == {<< <<0, 0>>, <<1, 0>> >>, << <<0, 30>>, <<1, 30>> >>,
                << <<0, 30>>, <<0, 45>> >>, << <<1, 0>>, <<2, 0>> >>,
                << <<0, 0>>, <<0, 30>> >>,
                << <<0, 0>>, <<0, 0>> >>, << <<1, 0>>, <<0, 0>> >>,
                << BadIso, <<1, 0>> >>}

NextBlocks ==
    \/ \E name_ok, auto, disclosure \in BOOLEAN :
           property_list(name_ok, auto, disclosure)
    \/ \E p \in PropIds, r \in BlockRanges : manage_blocks(p, r[1], r[2])
    \/ \E a \in BOOLEAN, p \in PropIds, r \in BlockRanges :
           ui_add_block_time(a, p, r[1], r[2])

SpecBlocks == Init /\ [][NextBlocks]_vars

\* C25: whichever route added them, the blocked ranges of each property are
\* pairwise non-overlapping as half-open intervals [start, end), and each
\* range ends after it starts.
C25_BlocksDoNotOverlap ==
    \A p \in DOMAIN blocked_times :
        LET l == blocked_times[p]
        IN  /\ \A i \in 1..Len(l) : l[i][2] > l[i][1]
            /\ \A i, j \in 1..Len(l) :
                   i # j => ~(l[i][1] < l[j][2] /\ l[i][2] > l[j][1])

\* a property holds three ranges, two of them touching, not in order of
\* start (the API appended after the UI sorted), and the last request, an
\* overlapping range sent through the UI, was dropped
C25_Witness ==
    /\ 1 \in DOMAIN blocked_times
    /\ blocked_times[1] = << <<30, 45>>, <<60, 120>>, <<0, 30>> >>
    /\ response.status = 302

\* C26: in every state, whatever the interleaving of block additions and
\* showing requests and reschedules, no pending or approved showing has a
\* window that overlaps a blocked range of its property.
C26_NoShowingInsideBlock ==
    \A id \in DOMAIN showings :
        Active(id)
          => ~is_time_blocked(showings[id].property_id,
                              showings[id].scheduled_at,
                              showings[id].scheduled_at + 60)

---------------------------------------------------------------------------
(* Independence of properties *)

\* what the stores hold for property p
ShowingsOf(p) ==
    {<<id, showings[id]>> : id \in {i \in DOMAIN showings :
                                        showings[i].property_id = p}}

SharesOf(p) ==
    {<<id, package_shares[id]>> :
        id \in {i \in DOMAIN package_shares :
                    package_shares[i].property_id = p}}

PackagesOf(p) ==
    {<<id, packages[id]>> : id \in {i \in DOMAIN packages :
                                        packages[i].property_id = p}}

StateOf(p) ==
    <<dict_get(properties, p, << >>), ShowingsOf(p),
      dict_get(blocked_times, p, << >>), dict_get(activity_logs, p, << >>),
      SharesOf(p), PackagesOf(p), dict_get(disclosures, p, << >>)>>

OthersUnchanged(p) == \A q \in PropIds \ {p} : StateOf(q)' = StateOf(q)

\* the showings of property p
IdsOf(p) == {id \in DOMAIN showings : showings[id].property_id = p}

\* the step is a request addressed to property p, or to a showing of p
AddressedTo(p) ==
    \/ \E r \in ShowingInputs, n \in DrawsOfRequest(p) :
           showing_list(p, r[1], r[2], n)
    \/ \E b \in BlockInputs : manage_blocks(p, b[1], b[2])
    \/ \E id \in IdsOf(p) :
          \/ \E n \in DrawsOfApprove(id) : approve_showing(id, n)
          \/ decline_showing(id)
          \/ \E t \in IsoInputs, n \in DrawsOfReschedule(id) :
                 reschedule_showing(id, t, n)
          \/ \E now \in NowInputs : get_lockbox_code(id, now)

\* what each request addressed to property p, or to a showing of p, would
\* be refused with, if it would be
SchedulingOutcomes(p) ==
    <<[r \in ShowingInputs |-> showing_list_error(p, r[1], r[2])],
      [b \in BlockInputs |-> manage_blocks_error(p, b[1], b[2])],
      [id \in IdsOf(p) |->
          <<approve_showing_error(id), decline_showing_error(id),
            [t \in IsoInputs |-> reschedule_showing_error(id, t)]>>]>>

SharesAddressedTo(p) ==
    \/ \E f \in UploadInputs : property_disclosures(p, f)
    \/ \E i \in PackageInputs : manage_packages(p, i[1], i[2])
    \/ \E k \in PkgIds \cup {NoId}, b \in BuyerInputs :
          \/ request_disclosure(p, k, b)
          \/ ui_request_disclosure(p, k, b)
    \/ \E k \in DOMAIN packages, b \in BuyerInputs :
          packages[k].property_id = p /\ create_share(k, b)
    \/ \E id \in DOMAIN package_shares :
          /\ package_shares[id].property_id = p
          /\ \/ \E f \in DownloadInputs : share_download(id, f)
             \/ \E i \in FeedbackInputs : share_feedback(id, i[1], i[2])
             \/ approve_share(id)
             \/ ui_approve_share(id)

\* The frame half of C27 for the disclosure workflow, under SpecShares: a
\* request addressed to property p, to a package of p or to a share of p
\* leaves the disclosures, packages, shares and activity log of every other
\* property unchanged.
SharesAreIndependent ==
    [][\/ UNCHANGED <<properties, activity_logs, share_vars, db_vars, aux_vars>>
       \/ \A p \in PropIds :
             OthersUnchanged(p) \/ ~SharesAddressedTo(p)]_vars

---------------------------------------------------------------------------
(* Notification failures *)

\* the deliveries that fail, when some do
SomeFailing == (SUBSET Dispatches) \ {{}}

ShareNotificationFailureChangesNothing ==
    \A failing \in SomeFailing :
        /\ \A p \in DOMAIN properties, k \in DOMAIN packages :
              /\ ~ENABLED (/\ request_disclosure_when(p, k, "Bo", failing)
                           /\ ~request_disclosure_when(p, k, "Bo", {}))
              /\ ~ENABLED (/\ request_disclosure_when(p, k, "Bo", {})
                           /\ ~request_disclosure_when(p, k, "Bo", failing))
        /\ \A id \in DOMAIN package_shares :
              /\ ~ENABLED (/\ approve_share_when(id, failing)
                           /\ ~approve_share_when(id, {}))
              /\ ~ENABLED (/\ approve_share_when(id, {})
                           /\ ~approve_share_when(id, failing))

---------------------------------------------------------------------------
(* POST /showings interleaved with the handlers that act on the showing.   *)
(* showing_list stores the showing (lines 574-586), notifies the buyer and *)
(* the seller (the message to the seller carries the showing id,           *)
(* lines 587-631) and only then records showing_requested (line 633); it   *)
(* takes no lock, so a handler of another worker thread may run in         *)
(* between.                                                                *)

\* lines 560-586: the checks and the insert
showing_list_store(t, prop_id, sched_str, client_name) ==
    LET err == showing_list_error(prop_id, sched_str, client_name)
        showing_id == NextShowingId
        pending == [id |-> showing_id,
                    property_id |-> prop_id,
                    client_name |-> client_name,
                    scheduled_at |-> fromisoformat(sched_str),
                    status |-> "pending",
                    lockbox_code |-> NoCode,
                    code_expires_at |-> NoTime]
    IN  /\ threads[t].pc = "idle"
        /\ IF err # NoError
           THEN /\ threads' = [threads EXCEPT ![t].pc = "done",
                                              ![t].outcome = "refused"]
                /\ response' = Resp(err[1], err[2], NoId)
                /\ UNCHANGED showings
           ELSE /\ showing_id <= MaxShowings
                /\ showings' = (showing_id :> pending) @@ showings
                /\ threads' = [threads EXCEPT
                                 ![t] = [IdleThread EXCEPT
                                           !.pc = "stored",
                                           !.prop_id = prop_id,
                                           !.sched_str = sched_str,
                                           !.client_name = client_name,
                                           !.showing_id = showing_id]]
                /\ UNCHANGED response
        /\ UNCHANGED <<properties, blocked_times, activity_logs, share_vars, db_vars, aux_vars>>

\* lines 632-700: the log entry, the automatic approval, the response
showing_list_record(t, n) ==
    LET showing_id == threads[t].showing_id
        prop_id == threads[t].prop_id
        stored == showings[showing_id]
        requested == log_event(activity_logs, prop_id, "showing_requested",
                        [showing_id |-> showing_id,
                         client_name |-> threads[t].client_name,
                         scheduled_at |->
                             isoformat(fromisoformat(threads[t].sched_str))])
        auto == properties[prop_id].auto_approve_showings
        s == auto_approve_update(stored, n)
    IN  /\ threads[t].pc = "stored"
        /\ TotalEvents + (IF auto THEN 2 ELSE 1) <= MaxEvents
        /\ IF auto /\ stored.status = "pending"
           THEN /\ showings' = [showings EXCEPT ![showing_id] = s]
                /\ activity_logs' =
                     log_event(requested, prop_id, "showing_approved",
                        [showing_id |-> showing_id,
                         client_name |-> s.client_name,
                         scheduled_at |-> isoformat(s.scheduled_at),
                         lockbox_code |-> s.lockbox_code,
                         auto |-> TRUE])
           ELSE /\ UNCHANGED showings
                /\ activity_logs' = requested
        /\ response' = Resp(201, "", showing_id)
        /\ threads' = [threads EXCEPT ![t].pc = "done",
                                      ![t].outcome = "created"]
        /\ UNCHANGED <<properties, blocked_times, share_vars, db_vars, aux_vars>>

\* the requests of the interleaved runs: two times, and one without a name
CausalInputs == {<< <<0, 0>>, "Ann" >>, << <<1, 0>>, "Ann" >>,
                 << <<0, 0>>, "" >>}

\* the handlers of the other worker threads are served whole
NextCausal ==
    \/ \E auto \in BOOLEAN : property_list(TRUE, auto, FALSE)
    \/ \E t \in Threads, p \in PropIds, r \in CausalInputs :
          showing_list_store(t, p, r[1], r[2])
    \/ \E t \in Threads : showing_list_record(t, 7)
    \/ \E id \in ShowingIds : approve_showing(id, 7)
    \/ \E id \in ShowingIds : decline_showing(id)
    \/ \E id \in ShowingIds, r \in CausalInputs :
          reschedule_showing(id, r[1], 7)

SpecCausal == Init /\ [][NextCausal]_vars

\* an event of one of `types' about showing id, at position i of p's log
EventAt(p, i, id, types) ==
    /\ activity_logs[p][i].type \in types
    /\ activity_logs[p][i].details.showing_id = id

\* C29: also when handlers interleave, an event is in the log only once its
\* mutation is in the store (the showing it is about is stored), and in a
\* property's log (newest first) the showing_requested event of a showing
\* is older than every showing_approved, showing_declined and
\* showing_rescheduled event of that showing.
C29_CausalOrder ==
    \A p \in DOMAIN activity_logs :
        \A i \in 1..Len(activity_logs[p]), id \in ShowingIds :
            /\ EventAt(p, i, id, {"showing_requested", "showing_approved",
                                  "showing_declined", "showing_rescheduled"})
                 => id \in DOMAIN showings
            /\ EventAt(p, i, id, {"showing_requested"})
                 => \A j \in 1..Len(activity_logs[p]) :
                        EventAt(p, j, id, {"showing_approved",
                                           "showing_declined",
                                           "showing_rescheduled"})
                          => j < i

---------------------------------------------------------------------------
(* The database: the UI routes that write rows, and the reload of the     *)
(* in-memory stores from the tables                                        *)

\* load_db_into_memory, lines 197-226: both stores are cleared and filled
\* with the rows of the tables
load_db_into_memory ==
    /\ properties' = [id \in DOMAIN PropertyModel |-> PropertyModel[id]]
    /\ showings' = [id \in DOMAIN ShowingModel |-> ShowingModel[id]]

(* POST /properties/new *)

\* current_user.id of the logged-in user who creates properties
CurrentUser == 1

\* uuid.uuid4().hex drawn for the property: distinct per property, and not an id
public_token_of(prop_id) == prop_id + 10

ui_create_property(authenticated, name_ok, auto, disclosure) ==
    LET prop_id == NextPropId
        row == [auto_approve_showings |-> auto,
                requires_disclosure_approval |-> disclosure]
        prop == [auto_approve_showings |-> auto,
                 requires_disclosure_approval |-> disclosure,
                 seller_id |-> CurrentUser,
                 public_token |-> public_token_of(prop_id)]
    IN
    /\ IF ~authenticated
       THEN /\ response' = Resp(302, "", NoId)
            /\ UNCHANGED <<properties, PropertyModel>>
       ELSE IF ~name_ok
       THEN /\ response' = Resp(200, "Name and address are required", NoId)
            /\ UNCHANGED <<properties, PropertyModel>>
       ELSE /\ prop_id \in PropIds
            /\ properties' = (prop_id :> prop) @@ properties
            /\ PropertyModel' = (prop_id :> row) @@ PropertyModel
            /\ response' = Resp(302, "", prop_id)
    /\ UNCHANGED <<showings, blocked_times, activity_logs, threads,
                   share_vars, ShowingModel, aux_vars>>

(* POST /properties/<property_id>/schedule_showing *)

ui_schedule_showing(property_id, sched_str, client_name, n) ==
    LET showing_id == NextShowingId
        start == fromisoformat(sched_str)
        pending == [id |-> showing_id,
                    property_id |-> property_id,
                    client_name |-> client_name,
                    scheduled_at |-> start,
                    status |-> "pending",
                    lockbox_code |-> NoCode,
                    code_expires_at |-> NoTime]
        requested == log_event(activity_logs, property_id,
                        "showing_requested",
                        [showing_id |-> showing_id,
                         client_name |-> client_name,
                         scheduled_at |-> isoformat(start)])
        auto == properties[property_id].auto_approve_showings
        s == auto_approve_update(pending, n)
        \* lines 3033-3104 are one try: a call that raises in it skips
        \* what follows it
        raised == \E to \in Dispatches : send_raises(to, Undelivered)
        skip == /\ response' = Resp(302, "", NoId)
                /\ UNCHANGED <<showings, ShowingModel, activity_logs>>
    IN
    /\ IF property_id \notin DOMAIN properties
       THEN /\ response' = Resp(404, "Property not found", NoId)
            /\ UNCHANGED <<showings, ShowingModel, activity_logs>>
       ELSE IF client_name = "" \/ sched_str = Missing
       THEN skip
       ELSE IF ~iso_valid(sched_str)
       THEN skip
       ELSE IF is_time_blocked(property_id, start, start + Hour)
               \/ has_conflict(property_id, start, start + Hour)
       THEN skip
       ELSE /\ showing_id <= MaxShowings
            /\ TotalEvents + (IF auto THEN 2 ELSE 1) <= MaxEvents
            /\ ShowingModel' = (showing_id :> pending) @@ ShowingModel
            /\ IF raised
               THEN /\ showings' = (showing_id :> pending) @@ showings
                    /\ UNCHANGED activity_logs
               ELSE IF auto
               THEN /\ showings' = (showing_id :> s) @@ showings
                    /\ activity_logs' =
                         log_event(requested, property_id,
                            "showing_approved",
                            [showing_id |-> showing_id,
                             client_name |-> s.client_name,
                             scheduled_at |-> isoformat(s.scheduled_at),
                             lockbox_code |-> s.lockbox_code,
                             auto |-> TRUE])
               ELSE /\ showings' = (showing_id :> pending) @@ showings
                    /\ activity_logs' = requested
            /\ response' = Resp(302, "", showing_id)
    /\ UNCHANGED <<properties, blocked_times, threads, share_vars,
                   PropertyModel, aux_vars>>

(* POST /profile *)

ui_profile(authenticated) ==
    /\ IF ~authenticated
       THEN /\ response' = Resp(302, "", NoId)
            /\ UNCHANGED <<properties, showings>>
       ELSE /\ load_db_into_memory
            /\ response' = Resp(200, "", NoId)
    /\ UNCHANGED <<blocked_times, activity_logs, threads, share_vars,
                   db_vars, aux_vars>>

\* the requests of the runs with a database: two times, and one without a
\* name
ReloadInputs == {<< <<0, 0>>, "Ann" >>, << <<1, 0>>, "Ann" >>,
                 << <<0, 0>>, "" >>}

NextReload ==
    \/ \E auto \in BOOLEAN : property_list(TRUE, auto, FALSE)
    \/ \E a, name_ok, auto \in BOOLEAN :
          ui_create_property(a, name_ok, auto, FALSE)
    \/ \E p \in PropIds, r \in ReloadInputs :
          \E n \in DrawsOfRequest(p) : showing_list(p, r[1], r[2], n)
    \/ \E p \in PropIds, r \in ReloadInputs :
          \E n \in DrawsOfRequest(p) : ui_schedule_showing(p, r[1], r[2], n)
    \/ \E id \in ShowingIds :
          \E n \in DrawsOfApprove(id) : approve_showing(id, n)
    \/ \E a \in BOOLEAN : ui_profile(a)

SpecReload == Init /\ [][NextReload]_vars

\* C30: a showing is never physically deleted: the id of a showing that is
\* in the showings store is in the store after every step, the reload of
\* the stores from the database by a profile update included.
C30_ShowingsAreNeverDeleted ==
    [][DOMAIN showings \subseteq DOMAIN showings']_vars

---------------------------------------------------------------------------
(* Downloads and approval *)

\* C37: in every state a share that holds a download record is approved.
C37_DownloadedShareIsApproved ==
    \A id \in DOMAIN package_shares :
        package_shares[id].downloads # << >> => package_shares[id].approved

\* the download from a share that had to wait for its approval was just
\* accepted, and its record is attached to the approved share
C37_Witness ==
    \E id \in DOMAIN package_shares :
        /\ response = Resp(200, "", id)
        /\ package_shares[id].downloads # << >>
        /\ package_shares[id].approved
        /\ SharesLogged(package_shares[id].property_id, "share_approved", id)
        /\ Cardinality(DownloadEvents(id)) = 1

---------------------------------------------------------------------------
(* Which refusal a request gets *)

TimeBlocked == Resp(409, "requested time is blocked", NoId)
SchedulingConflict ==
    Resp(409, "requested time conflicts with another showing", NoId)

\* C34: a request or a reschedule for a window that is inside a blocked
\* range and also overlaps a non-declined showing of the property is
\* refused as blocked, not as a conflict; one whose window only overlaps a
\* showing is refused as a conflict; so a refusal names one of the two.
C34_BlockedBeforeConflict ==
    \A p \in DOMAIN properties, t \in GoodIso :
        LET start == fromisoformat(t)
            blocked == is_time_blocked(p, start, start + Hour)
            conflict == has_conflict(p, start, start + Hour)
            expected == IF blocked THEN TimeBlocked ELSE SchedulingConflict
        IN  (blocked \/ conflict)
              => /\ ~ENABLED (/\ showing_list(p, t, "Ann", 7)
                              /\ response' # expected)
                 /\ \A id \in IdsOf(p) :
                      ~ENABLED (/\ reschedule_showing(id, t, 7)
                                /\ response' # expected)

\* the only property has an active showing at 0:00 and, added after it, the
\* blocked range 0:00-1:00; a request was just refused as blocked, so it
\* asked for 0:00 or 0:30, which the showing overlaps as well
C34_Witness ==
    /\ DOMAIN properties = {1}
    /\ DOMAIN showings = {1}
    /\ Active(1) /\ showings[1].scheduled_at = 0
    /\ dict_get(blocked_times, 1, << >>) = << <<0, 60>> >>
    /\ response = TimeBlocked

---------------------------------------------------------------------------
(* Overlapping blocked ranges *)

\* the ranges of BlockRanges that parse, end after they start and overlap a
\* range property p has blocked
OverlappingRanges(p) ==
    {r \in BlockRanges :
        /\ iso_valid(r[1]) /\ iso_valid(r[2])
        /\ fromisoformat(r[2]) > fromisoformat(r[1])
        /\ is_time_blocked(p, fromisoformat(r[1]), fromisoformat(r[2]))}

\* an answer that reports an error: a 4xx status with a message
ExplicitError(resp) == resp.status \in 400..499 /\ resp.error # ""

\* C33: on both routes that add blocked ranges, a range that overlaps one
\* the property has blocked already is refused with an explicit error and
\* the property's list of blocked ranges is left as it was.
C33_OverlappingBlockIsRefused ==
    [][\A p \in DOMAIN properties :
          \A r \in OverlappingRanges(p) :
             (manage_blocks(p, r[1], r[2])
                \/ ui_add_block_time(TRUE, p, r[1], r[2]))
               => /\ ExplicitError(response')
                  /\ blocked_times' = blocked_times]_vars

---------------------------------------------------------------------------
(* The simple application, src/app.py: properties and showings are lists,
   every answer is a page or a redirect, the outcome is a flashed message. *)

\* flash(message, category) followed by the page or the redirect
Flashed(status, message) == Resp(status, message, NoId)

(* POST /properties/add *)
app_add_property(name_ok, address_ok) ==
    /\ Len(app_properties) < Cardinality(PropIds)
    /\ IF ~name_ok \/ ~address_ok
       THEN /\ response' = Flashed(200, "Name and address are required.")
            /\ UNCHANGED app_properties
       ELSE /\ app_properties' =
                Append(app_properties, [id |-> Len(app_properties) + 1])
            /\ response' = Flashed(302, "Property added successfully.")
    /\ UNCHANGED <<properties, showings, blocked_times, activity_logs,
                   threads, share_vars, db_vars, tours, guest_requests,
                   app_showings>>

(* POST /showings/add: the property id is stored as sent *)
app_add_showing(property_id, scheduled_at_str, client_name) ==
    /\ Len(app_showings) < MaxShowings
    /\ IF app_properties = << >>
       THEN /\ response' =
                Flashed(302, "Add a property first before scheduling a showing.")
            /\ UNCHANGED app_showings
       ELSE IF property_id = NoId \/ scheduled_at_str = Missing
               \/ client_name = ""
       THEN /\ response' = Flashed(200, "All fields are required.")
            /\ UNCHANGED app_showings
       ELSE IF ~iso_valid(scheduled_at_str)
       THEN /\ response' = Flashed(302, "Invalid date/time format.")
            /\ UNCHANGED app_showings
       ELSE /\ app_showings' =
                Append(app_showings,
                       [id |-> Len(app_showings) + 1,
                        property_id |-> property_id,
                        scheduled_at |-> fromisoformat(scheduled_at_str),
                        client_name |-> client_name,
                        status |-> "pending"])
            /\ response' = Flashed(302, "Showing scheduled successfully.")
    /\ UNCHANGED <<properties, showings, blocked_times, activity_logs,
                   threads, share_vars, db_vars, tours, guest_requests,
                   app_properties>>

\* for s in showings: if s["id"] == showing_id: s["status"] = status; break
app_set_status(showing_id, status, message) ==
    /\ IF \E i \in DOMAIN app_showings : app_showings[i].id = showing_id
       THEN LET i == CHOOSE j \in DOMAIN app_showings :
                        /\ app_showings[j].id = showing_id
                        /\ \A k \in 1..(j - 1) :
                              app_showings[k].id # showing_id
            IN  /\ app_showings' =
                      [app_showings EXCEPT ![i].status = status]
                /\ response' = Flashed(302, message)
       ELSE /\ response' = Flashed(302, "")
            /\ UNCHANGED app_showings
    /\ UNCHANGED <<properties, showings, blocked_times, activity_logs,
                   threads, share_vars, db_vars, tours, guest_requests,
                   app_properties>>

(* GET /showings/<showing_id>/approve *)
app_approve_showing(showing_id) ==
    app_set_status(showing_id, "approved", "Showing approved.")

(* GET /showings/<showing_id>/decline *)
app_decline_showing(showing_id) ==
    app_set_status(showing_id, "declined", "Showing declined.")

NextSimple ==
    \/ \E name_ok \in BOOLEAN, address_ok \in BOOLEAN :
          app_add_property(name_ok, address_ok)
    \/ \E p \in PropIds \cup {NoId}, t \in IsoInputs, c \in {"Ann", ""} :
          app_add_showing(p, t, c)
    \/ \E id \in 1..(MaxShowings + 1) : app_approve_showing(id)
    \/ \E id \in 1..(MaxShowings + 1) : app_decline_showing(id)

SpecSimple == Init /\ [][NextSimple]_vars

\* C39: in src/app.py a showing that has been declined is never approved
\* afterwards, and a showing that has been approved is never declined
\* afterwards.
C39_SimpleLifecycleIsOneWay ==
    [][\A i \in DOMAIN app_showings :
          /\ app_showings[i].status = "declined"
               => app_showings'[i].status # "approved"
          /\ app_showings[i].status = "approved"
               => app_showings'[i].status # "declined"]_vars

---------------------------------------------------------------------------
(* Guest access requests: a visitor asks for access to a property through
   its public token, the property's seller or agent approves or declines. *)

MaxGuestRequests == 2   \* guest access requests created

NoLink == << >>         \* access_link None

\* the signed-in users who call the routes, and no session at all
Anonymous == [id |-> NoId, role |-> ""]
GuestUsers == {[id |-> CurrentUser, role |-> "seller"],
               [id |-> 2, role |-> "listing_agent"],
               [id |-> 3, role |-> "buyer"],
               Anonymous}

ManagingRoles == {"seller", "listing_agent", "buyer_agent", "both_agent",
                  "agent"}

\* _find_property_by_token: the first property carrying the token, NoId if
\* there is none
find_property_by_token(token) ==
    LET found == {p \in DOMAIN properties :
                     /\ "public_token" \in DOMAIN properties[p]
                     /\ properties[p].public_token = token}
    IN  IF found = {} THEN NoId
        ELSE CHOOSE p \in found : \A q \in found : p <= q

\* url_for("public_property", public_token=..., _external=True)
public_property_url(token) == <<"/public/property/", token>>

NextGuestId == Cardinality(DOMAIN guest_requests) + 1    \* uuid.uuid4().hex

(* POST /request_access/<public_token> *)
request_access(public_token, name_ok, phone_ok) ==
    LET prop_id == find_property_by_token(public_token)
        req_id == NextGuestId
    IN
    /\ req_id <= MaxGuestRequests
    /\ IF prop_id = NoId
       THEN /\ response' = Resp(404, "Property not found", NoId)
            /\ UNCHANGED guest_requests
       ELSE IF ~name_ok \/ ~phone_ok
       THEN /\ response' =
                Resp(200, "Name and phone number are required.", NoId)
            /\ UNCHANGED guest_requests
       ELSE /\ guest_requests' =
                (req_id :> [id |-> req_id,
                            property_id |-> prop_id,
                            public_token |-> public_token,
                            status |-> "pending",
                            access_link |-> NoLink]) @@ guest_requests
            /\ response' = Resp(200, "", req_id)
    /\ UNCHANGED <<properties, showings, blocked_times, activity_logs,
                   threads, share_vars, db_vars, tours, app_properties,
                   app_showings>>

\* a decision that is taken whatever the request's status
guest_request_open_always(req) == TRUE

\* "Approve if pending" / the same test of decline_guest_request
guest_request_open(req) == req.status = "pending"

\* the checks both decision routes make before they touch the request
guest_request_error(user, req_id) ==
    IF user = Anonymous THEN <<302, "">>                 \* @login_required
    ELSE IF user.role \notin ManagingRoles THEN <<302, "">>
    ELSE IF req_id \notin DOMAIN guest_requests
    THEN <<404, "Request not found">>
    ELSE IF guest_requests[req_id].property_id \notin DOMAIN properties
    THEN <<404, "Property not found">>
    ELSE LET prop == properties[guest_requests[req_id].property_id]
         IN  IF "seller_id" \in DOMAIN prop /\ prop.seller_id = user.id
             THEN NoError
             ELSE <<403, "Unauthorized">>

(* POST /guest_requests/<req_id>/approve *)
approve_guest_request(user, req_id) ==
    LET err == guest_request_error(user, req_id) IN
    /\ IF err # NoError
       THEN /\ response' = Resp(err[1], err[2], NoId)
            /\ UNCHANGED guest_requests
       ELSE /\ guest_requests' =
                IF guest_request_open(guest_requests[req_id])
                THEN [guest_requests EXCEPT
                        ![req_id].status = "approved",
                        ![req_id].access_link =
                            public_property_url(
                                guest_requests[req_id].public_token)]
                ELSE guest_requests
            /\ response' = Resp(302, "", req_id)
    /\ UNCHANGED <<properties, showings, blocked_times, activity_logs,
                   threads, share_vars, db_vars, tours, app_properties,
                   app_showings>>

(* POST /guest_requests/<req_id>/decline *)
decline_guest_request(user, req_id) ==
    LET err == guest_request_error(user, req_id) IN
    /\ IF err # NoError
       THEN /\ response' = Resp(err[1], err[2], NoId)
            /\ UNCHANGED guest_requests
       ELSE /\ guest_requests' =
                IF guest_request_open(guest_requests[req_id])
                THEN [guest_requests EXCEPT ![req_id].status = "declined"]
                ELSE guest_requests
            /\ response' = Resp(302, "", req_id)
    /\ UNCHANGED <<properties, showings, blocked_times, activity_logs,
                   threads, share_vars, db_vars, tours, app_properties,
                   app_showings>>

GuestIds == 1..(MaxGuestRequests + 1)
Tokens == {public_token_of(p) : p \in PropIds} \cup {NoId}

NextGuests ==
    \/ \E authenticated \in BOOLEAN, name_ok \in BOOLEAN, auto \in BOOLEAN :
          ui_create_property(authenticated, name_ok, auto, FALSE)
    \/ ui_profile(TRUE)
    \/ \E token \in Tokens, name_ok \in BOOLEAN, phone_ok \in BOOLEAN :
          request_access(token, name_ok, phone_ok)
    \/ \E user \in GuestUsers, id \in GuestIds :
          approve_guest_request(user, id)
    \/ \E user \in GuestUsers, id \in GuestIds :
          decline_guest_request(user, id)

SpecGuests == Init /\ [][NextGuests]_vars

\* C38: a guest access request that is approved or declined is never changed
\* again by any route, and in every state a request carries an access link
\* exactly when its status is approved.
C38_GuestDecisionIsFinal ==
    /\ [](\A r \in DOMAIN guest_requests :
             guest_requests[r].access_link # NoLink
                <=> guest_requests[r].status = "approved")
    /\ [][\A r \in DOMAIN guest_requests :
             guest_requests[r].status # "pending"
                => /\ r \in DOMAIN guest_requests'
                   /\ guest_requests'[r] = guest_requests[r]]_vars

\* an approved request the seller asks to decline and a declined request the
\* seller asks to approve: both requests are answered and change nothing
C38_Witness ==
    LET seller == [id |-> CurrentUser, role |-> "seller"] IN
    /\ DOMAIN guest_requests = {1, 2}
    /\ guest_requests[1].status = "approved"
    /\ guest_requests[1].access_link = public_property_url(public_token_of(1))
    /\ guest_requests[2].status = "declined"
    /\ guest_requests[2].access_link = NoLink
    /\ guest_request_error(seller, 1) = NoError
    /\ guest_request_error(seller, 2) = NoError
    /\ ENABLED (decline_guest_request(seller, 1) /\ UNCHANGED guest_requests)
    /\ ENABLED (approve_guest_request(seller, 2) /\ UNCHANGED guest_requests)

---------------------------------------------------------------------------
(* Buyer tours: POST /tours takes a list of showing ids and stores the
   itinerary.  The runs start from the stores that earlier requests left:
   two properties, and showings that were booked and decided one after the
   other (POST /showings, then approve or decline, for each id in turn). *)

MaxTours == 1           \* tours created

\* the showing decided last overlaps no undeclined earlier showing of its
\* property: has_conflict refused it otherwise
BookableAfter(k, ps, ts, sts) ==
    \A i \in 1..k, j \in 1..k :
        (i < j /\ ps[i] = ps[j] /\ sts[i] # "declined")
            => ~(ts[i] < ts[j] + Hour /\ ts[j] < ts[i] + Hour)

\* the log those requests wrote, newest entry first
RECURSIVE LogOfRun(_, _, _, _)
LogOfRun(k, ps, ts, sts) ==
    IF k = 0 THEN << >>
    ELSE LET before == LogOfRun(k - 1, ps, ts, sts)
             requested == log_event(before, ps[k], "showing_requested",
                             [showing_id |-> k,
                              client_name |-> "Ann",
                              scheduled_at |-> isoformat(ts[k])])
         IN  IF sts[k] = "approved"
             THEN log_event(requested, ps[k], "showing_approved",
                     [showing_id |-> k,
                      client_name |-> "Ann",
                      scheduled_at |-> isoformat(ts[k]),
                      lockbox_code |-> generate_lockbox_code(7)])
             ELSE IF sts[k] = "declined"
             THEN log_event(requested, ps[k], "showing_declined",
                     [showing_id |-> k,
                      client_name |-> "Ann",
                      scheduled_at |-> isoformat(ts[k])])
             ELSE requested

InitTours ==
    /\ properties = [p \in PropIds |->
                       [auto_approve_showings |-> FALSE,
                        requires_disclosure_approval |-> FALSE]]
    /\ \E k \in 0..MaxShowings :
          \E ps \in [1..k -> PropIds],
             ts \in [1..k -> {fromisoformat(t) : t \in GoodIso}],
             sts \in [1..k -> StoredStatus] :
             /\ BookableAfter(k, ps, ts, sts)
             /\ showings = [id \in 1..k |->
                              StoredShowing(id, ps[id], ts[id], sts[id])]
             /\ activity_logs = LogOfRun(k, ps, ts, sts)
    /\ blocked_times = << >>
    /\ response = Resp(0, "", NoId)
    /\ threads = [t \in Threads |-> IdleThread]
    /\ disclosures = << >>
    /\ packages = << >>
    /\ package_shares = << >>
    /\ disclosure_feedback_store = << >>
    /\ PropertyModel = << >>
    /\ ShowingModel = << >>
    /\ tours = << >>
    /\ guest_requests = << >>
    /\ app_properties = << >>
    /\ app_showings = << >>

\* a tour that keeps the showings in the order of the request
unsorted(selected) == selected

\* selected.sort(key=lambda x: x["scheduled_at"]): stable, by insertion
RECURSIVE sort_by_scheduled_at(_)
sort_by_scheduled_at(selected) ==
    IF Len(selected) <= 1 THEN selected
    ELSE LET n == Len(selected)
             last == selected[n]
             front == sort_by_scheduled_at(SubSeq(selected, 1, n - 1))
             \* last goes behind every entry that starts no later
             k == Cardinality({i \in 1..(n - 1) :
                                  front[i].scheduled_at <= last.scheduled_at})
         IN  SubSeq(front, 1, k) \o <<last>> \o SubSeq(front, k + 1, n - 1)

\* lines 1019-1029: the first check of tour_list that fails
tour_list_error(ids) ==
    LET bad == {i \in 1..Len(ids) :
                   \/ ids[i] \notin DOMAIN showings
                   \/ showings[ids[i]].status # "approved"}
    IN  IF ids = << >>
        THEN <<400, "showing_ids must be a non-empty list">>
        ELSE IF bad = {} THEN NoError
        ELSE LET i == CHOOSE j \in bad : \A l \in bad : j <= l
             IN  IF ids[i] \notin DOMAIN showings
                 THEN <<404, "showing not found">>
                 ELSE <<400, "showing is not approved">>

NextTourId == Cardinality(DOMAIN tours) + 1    \* str(uuid.uuid4())

(* POST /tours *)
tour_list(ids) ==
    LET err == tour_list_error(ids)
        tour_id == NextTourId
    IN
    /\ IF err # NoError
       THEN /\ response' = Resp(err[1], err[2], NoId)
            /\ UNCHANGED tours
       ELSE LET selected ==
                    sort_by_scheduled_at([i \in 1..Len(ids) |-> showings[ids[i]]])
            IN  /\ tour_id <= MaxTours
                /\ \A i \in 1..Len(ids) :
                      showings[ids[i]].property_id \in DOMAIN properties
                /\ tours' =
                     (tour_id :>
                        [id |-> tour_id,
                         showings |-> [i \in 1..Len(selected) |->
                                          selected[i].id],
                         itinerary |->
                            [i \in 1..Len(selected) |->
                               [showing_id |-> selected[i].id,
                                property_id |-> selected[i].property_id,
                                scheduled_at |->
                                    isoformat(selected[i].scheduled_at)]]])
                     @@ tours
                /\ response' = Resp(201, "", tour_id)
    /\ UNCHANGED <<properties, showings, blocked_times, activity_logs,
                   threads, share_vars, db_vars, guest_requests,
                   app_properties, app_showings>>

\* the lists a client sends: up to two ids, one of them unknown
TourInputs ==
    LET Ids == 1..(MaxShowings + 1)
    IN  {<< >>} \cup {<<a>> : a \in Ids} \cup {<<a, b>> : a \in Ids, b \in Ids}

NextTours ==
    \/ \E ids \in TourInputs : tour_list(ids)
    \/ \E id \in ShowingIds : approve_showing(id, 7)
    \/ \E id \in ShowingIds : decline_showing(id)
    \/ \E id \in ShowingIds, t \in GoodIso : reschedule_showing(id, t, 7)

SpecTours == InitTours /\ [][NextTours]_vars

\* the scheduled starts of an itinerary never go down
Ordered(itinerary) ==
    \A i \in 1..Len(itinerary), j \in 1..Len(itinerary) :
        i < j => fromisoformat(itinerary[i].scheduled_at)
                    <= fromisoformat(itinerary[j].scheduled_at)

\* what a tour stored for the request ids must hold: one itinerary entry per
\* listed id, each with the start its showing has now
TourOf(ids, tour) ==
    LET it == tour.itinerary
    IN  /\ Len(it) = Len(ids)
        /\ \A i \in 1..Len(ids) :
              Cardinality({j \in 1..Len(it) : it[j].showing_id = ids[i]})
                 = Cardinality({j \in 1..Len(ids) : ids[j] = ids[i]})
        /\ \A j \in 1..Len(it) :
              it[j].scheduled_at =
                 isoformat(showings[it[j].showing_id].scheduled_at)

\* C32: in every state, a request for a tour that lists an unknown showing or
\* one that is not approved can only be refused (400 or 404) and store no
\* tour; any other request can only store a tour of the listed showings with
\* the starts they have at that moment; and the itinerary of every stored
\* tour is in non-decreasing order of start.
C32_ToursOfApprovedShowingsInOrder ==
    /\ \A t \in DOMAIN tours : Ordered(tours[t].itinerary)
    /\ \A ids \in TourInputs :
          IF \E i \in 1..Len(ids) :
                \/ ids[i] \notin DOMAIN showings
                \/ showings[ids[i]].status # "approved"
          THEN ~ENABLED (/\ tour_list(ids)
                         /\ ~(/\ tours' = tours
                              /\ response'.status \in {400, 404}))
          ELSE ~ENABLED (/\ tour_list(ids)
                         /\ \E t \in DOMAIN tours' \ DOMAIN tours :
                               ~TourOf(ids, tours'[t]))

\* a stored tour of two approved showings whose itinerary starts with
\* showing 2, the earlier one
C32_Witness ==
    /\ DOMAIN showings = {1, 2}
    /\ showings[1].status = "approved" /\ showings[2].status = "approved"
    /\ showings[2].scheduled_at < showings[1].scheduled_at
    /\ DOMAIN tours = {1}
    /\ tours[1].showings = <<2, 1>>
    /\ tours[1].itinerary[1].scheduled_at = <<0, 0>>
    /\ tours[1].itinerary[2].scheduled_at = <<1, 0>>
    /\ response = Resp(201, "", 1)

---------------------------------------------------------------------------
(* The lifecycle state of a showing across a reload *)

\* C35: a reload of the stores from the database leaves every showing that
\* is still stored with the status, the lockbox code, the expiry and the
\* scheduled start it had before.
C35_ReloadPreservesLifecycle ==
    [][ui_profile(TRUE)
         => \A id \in DOMAIN showings \cap DOMAIN showings' :
               /\ showings'[id].status = showings[id].status
               /\ showings'[id].lockbox_code = showings[id].lockbox_code
               /\ showings'[id].code_expires_at = showings[id].code_expires_at
               /\ showings'[id].scheduled_at = showings[id].scheduled_at]_vars

---------------------------------------------------------------------------
(* The booking routes of the UI next to POST /showings.
   ui_schedule_slot stores the path parameter itself under "scheduled_at",
   a str where every other route stores a datetime: such a record has the
   field scheduled_at_str in place of scheduled_at. *)

holds_str(s) == "scheduled_at" \notin DOMAIN s

\* has_conflict on a store that may hold such a record: the scan goes through
\* the showings in the order they were inserted and stops at the first
\* overlap; s_start + timedelta(hours=1) raises TypeError on a str
has_conflict_scan(property_id, start, end) ==
    LET stops == {id \in DOMAIN showings :
                     /\ showings[id].property_id = property_id
                     /\ showings[id].status # "declined"
                     /\ \/ holds_str(showings[id])
                        \/ /\ start < showings[id].scheduled_at + Hour
                           /\ end > showings[id].scheduled_at}
    IN  IF stops = {} THEN "False"
        ELSE LET first == CHOOSE id \in stops : \A other \in stops : id <= other
             IN  IF holds_str(showings[first]) THEN "TypeError" ELSE "True"

\* a request that passes every check before has_conflict and makes it raise
scan_raises(prop_id, sched_str, client_name) ==
    /\ prop_id \in DOMAIN properties
    /\ sched_str # Missing /\ client_name # ""
    /\ iso_valid(sched_str)
    /\ ~is_time_blocked(prop_id, fromisoformat(sched_str),
                        fromisoformat(sched_str) + Hour)
    /\ has_conflict_scan(prop_id, fromisoformat(sched_str),
                         fromisoformat(sched_str) + Hour) = "TypeError"

\* a handler that catches nothing around has_conflict: the TypeError ends the
\* request with 500 and nothing is stored
served(prop_id, sched_str, client_name, handler) ==
    IF scan_raises(prop_id, sched_str, client_name)
    THEN /\ response' = ServerError
         /\ UNCHANGED <<properties, showings, blocked_times, activity_logs,
                        threads, share_vars, db_vars, aux_vars>>
    ELSE handler

(* POST /properties/<property_id>/schedule-slot/<scheduled_at> *)
ui_schedule_slot(property_id, sched_str, client_name) ==
    LET showing_id == NextShowingId
        start == fromisoformat(sched_str)
        unavailable == Resp(200, "This slot is no longer available", NoId)
        scan == has_conflict_scan(property_id, start, start + Hour)
    IN
    /\ IF property_id \notin DOMAIN properties
       THEN /\ response' = Resp(404, "Property not found", NoId)
            /\ UNCHANGED showings
       ELSE IF ~iso_valid(sched_str)
       THEN /\ response' = Resp(302, "", NoId)
            /\ UNCHANGED showings
       ELSE IF client_name = ""
       THEN /\ response' = Resp(200, "Client name is required", NoId)
            /\ UNCHANGED showings
       ELSE IF is_time_blocked(property_id, start, start + Hour)
       THEN /\ response' = unavailable
            /\ UNCHANGED showings
       ELSE IF scan = "TypeError"
       THEN /\ response' = ServerError
            /\ UNCHANGED showings
       ELSE IF scan = "True"
       THEN /\ response' = unavailable
            /\ UNCHANGED showings
       ELSE \* line 3173 calls log_event with three positional arguments and
            \* details= as well: TypeError, after the showing was stored and
            \* before the automatic approval
            /\ showing_id <= MaxShowings
            /\ showings' = (showing_id :>
                              [id |-> showing_id,
                               property_id |-> property_id,
                               scheduled_at_str |-> sched_str,
                               status |-> "pending",
                               client_name |-> client_name]) @@ showings
            /\ response' = ServerError
    /\ UNCHANGED <<properties, blocked_times, activity_logs, threads,
                   share_vars, db_vars, aux_vars>>

(* POST /public/property/<public_token>/schedule-slot/<scheduled_at> *)
public_schedule_slot(public_token, sched_str, client_name, n) ==
    LET prop_id == find_property_by_token(public_token)
        showing_id == NextShowingId
        start == fromisoformat(sched_str)
        unavailable == Resp(200, "This slot is no longer available", NoId)
        scan == has_conflict_scan(prop_id, start, start + Hour)
        \* the record is stored without lockbox_code and code_expires_at
        pending == [id |-> showing_id,
                    property_id |-> prop_id,
                    scheduled_at |-> start,
                    status |-> "pending",
                    client_name |-> client_name]
        row == [id |-> showing_id,
                property_id |-> prop_id,
                client_name |-> client_name,
                scheduled_at |-> start,
                status |-> "pending",
                lockbox_code |-> NoCode,
                code_expires_at |-> NoTime]
        approved == [id |-> showing_id,
                     property_id |-> prop_id,
                     scheduled_at |-> start,
                     status |-> "approved",
                     client_name |-> client_name,
                     lockbox_code |-> generate_lockbox_code(n),
                     code_expires_at |-> start + CodeLifetime]
        requested == log_event(activity_logs, prop_id, "showing_requested",
                        [showing_id |-> showing_id,
                         client_name |-> client_name,
                         scheduled_at |-> isoformat(start)])
        \* lines 2580-2622 are one try: a call that raises in it skips what
        \* follows it
        raised == \E to \in Dispatches : send_raises(to, Undelivered)
        refuse(resp) == /\ response' = resp
                        /\ UNCHANGED <<showings, ShowingModel, activity_logs>>
    IN
    /\ IF prop_id = NoId
       THEN refuse(Resp(404, "Property not found", NoId))
       ELSE IF ~iso_valid(sched_str)
       THEN refuse(Resp(302, "", NoId))
       ELSE IF client_name = ""
       THEN refuse(Resp(200, "Name is required", NoId))
       ELSE IF is_time_blocked(prop_id, start, start + Hour)
       THEN refuse(unavailable)
       ELSE IF scan = "TypeError"
       THEN refuse(ServerError)
       ELSE IF scan = "True"
       THEN refuse(unavailable)
       ELSE LET auto == properties[prop_id].auto_approve_showings
            IN  /\ showing_id <= MaxShowings
                /\ TotalEvents + (IF auto THEN 2 ELSE 1) <= MaxEvents
                /\ ShowingModel' = (showing_id :> row) @@ ShowingModel
                /\ IF raised
                   THEN /\ showings' = (showing_id :> pending) @@ showings
                        /\ UNCHANGED activity_logs
                   ELSE IF auto
                   THEN /\ showings' = (showing_id :> approved) @@ showings
                        /\ activity_logs' =
                             log_event(requested, prop_id, "showing_approved",
                                [showing_id |-> showing_id,
                                 client_name |-> client_name,
                                 scheduled_at |-> isoformat(start),
                                 lockbox_code |-> generate_lockbox_code(n),
                                 auto |-> TRUE])
                   ELSE /\ showings' = (showing_id :> pending) @@ showings
                        /\ activity_logs' = requested
                /\ response' = Resp(302, "", showing_id)
    /\ UNCHANGED <<properties, blocked_times, threads, share_vars,
                   PropertyModel, aux_vars>>

\* the requests of the runs that compare the routes: two overlapping times,
\* one request without a name and one with a time that does not parse
SyncInputs == {<< <<0, 0>>, "Ann" >>, << <<0, 30>>, "Ann" >>,
               << <<0, 0>>, "" >>, << BadIso, "Ann" >>}

NextSync ==
    \/ \E auto \in BOOLEAN : ui_create_property(TRUE, TRUE, auto, FALSE)
    \/ \E p \in PropIds : manage_blocks(p, <<0, 30>>, <<1, 30>>)
    \/ \E p \in PropIds, r \in SyncInputs :
          served(p, r[1], r[2], showing_list(p, r[1], r[2], 7))
    \/ \E p \in PropIds, r \in SyncInputs :
          served(p, r[1], r[2], ui_schedule_showing(p, r[1], r[2], 7))
    \/ \E p \in PropIds, r \in SyncInputs : ui_schedule_slot(p, r[1], r[2])
    \/ \E p \in PropIds, r \in SyncInputs :
          public_schedule_slot(public_token_of(p), r[1], r[2], 7)

SpecSync == Init /\ [][NextSync]_vars

\* POST /showings refuses the request, or raises on it
api_refuses(prop_id, sched_str, client_name) ==
    \/ scan_raises(prop_id, sched_str, client_name)
    \/ showing_list_error(prop_id, sched_str, client_name) # NoError

\* the instant a stored showing is scheduled at
instant(s) == IF holds_str(s) THEN fromisoformat(s.scheduled_at_str)
              ELSE s.scheduled_at

\* the record and the log POST /showings leaves for an accepted request,
\* here as the outcome of the step: the same instant, status, code and
\* expiry, and the same events
same_as_api(prop_id, sched_str, client_name, n) ==
    LET showing_id == NextShowingId
        auto == properties[prop_id].auto_approve_showings
        start == fromisoformat(sched_str)
        requested == log_event(activity_logs, prop_id, "showing_requested",
                        [showing_id |-> showing_id,
                         client_name |-> client_name,
                         scheduled_at |-> isoformat(start)])
        api == IF auto
               THEN [status |-> "approved",
                     lockbox_code |-> generate_lockbox_code(n),
                     code_expires_at |-> start + CodeLifetime,
                     log |-> log_event(requested, prop_id, "showing_approved",
                                [showing_id |-> showing_id,
                                 client_name |-> client_name,
                                 scheduled_at |-> isoformat(start),
                                 lockbox_code |-> generate_lockbox_code(n),
                                 auto |-> TRUE])]
               ELSE [status |-> "pending",
                     lockbox_code |-> NoCode,
                     code_expires_at |-> NoTime,
                     log |-> requested]
    IN  /\ DOMAIN showings' = DOMAIN showings \cup {showing_id}
        /\ \A id \in DOMAIN showings : showings'[id] = showings[id]
        /\ LET s == showings'[showing_id]
           IN  /\ s.property_id = prop_id
               /\ instant(s) = start
               /\ s.status = api.status
               /\ dict_get(s, "lockbox_code", NoCode) = api.lockbox_code
               /\ dict_get(s, "code_expires_at", NoTime) = api.code_expires_at
        /\ activity_logs' = api.log

\* C31: whatever the stores hold, a booking request sent to
\* ui_schedule_showing, ui_schedule_slot or public_schedule_slot is refused
\* exactly when POST /showings refuses it, a refused request changes neither
\* the showings nor the log, and an accepted one leaves the showing record
\* and the events POST /showings leaves; POST /showings is held to the same.
C31_UiBookingMatchesApi ==
    [][\A p \in DOMAIN properties, r \in SyncInputs :
          (\/ served(p, r[1], r[2], showing_list(p, r[1], r[2], 7))
           \/ served(p, r[1], r[2], ui_schedule_showing(p, r[1], r[2], 7))
           \/ ui_schedule_slot(p, r[1], r[2])
           \/ public_schedule_slot(public_token_of(p), r[1], r[2], 7))
            => IF api_refuses(p, r[1], r[2])
               THEN showings' = showings /\ activity_logs' = activity_logs
               ELSE same_as_api(p, r[1], r[2], 7)]_vars

---------------------------------------------------------------------------
(* The lifecycle routes of the UI next to those of the API, on stores that
   the database routes and the reload have written. *)

\* the try of the three routes: after the messages to the buyer it reads
\* prop.get("seller_phone") from properties.get(prop_id), an AttributeError
\* when the property is not stored; except Exception: pass then skips the
\* log_event at the end of the try
ui_try_raises(prop_id) ==
    \/ prop_id \notin DOMAIN properties
    \/ \E to \in Dispatches : send_raises(to, Undelivered)

(* POST /showings/<showing_id>/approve_ui *)
ui_approve_showing(showing_id, n) ==
    /\ IF showing_id \notin DOMAIN showings
       THEN /\ response' = Resp(404, "Showing not found", NoId)
            /\ UNCHANGED <<showings, activity_logs>>
       ELSE IF showings[showing_id].status # "pending"
       THEN /\ response' = Resp(302, "", showing_id)
            /\ UNCHANGED <<showings, activity_logs>>
       ELSE LET s == approve_update(showings[showing_id], n)
            IN  /\ TotalEvents < MaxEvents
                /\ showings' = [showings EXCEPT ![showing_id] = s]
                /\ activity_logs' =
                     IF ui_try_raises(s.property_id) THEN activity_logs
                     ELSE log_event(activity_logs, s.property_id,
                             "showing_approved",
                             [showing_id |-> showing_id,
                              client_name |-> s.client_name,
                              scheduled_at |-> isoformat(s.scheduled_at),
                              lockbox_code |-> s.lockbox_code])
                /\ response' = Resp(302, "", showing_id)
    /\ UNCHANGED <<properties, blocked_times, threads, share_vars, db_vars,
                   aux_vars>>

(* POST /showings/<showing_id>/decline_ui *)
ui_decline_showing(showing_id) ==
    /\ IF showing_id \notin DOMAIN showings
       THEN /\ response' = Resp(404, "Showing not found", NoId)
            /\ UNCHANGED <<showings, activity_logs>>
       ELSE IF showings[showing_id].status # "pending"
       THEN /\ response' = Resp(302, "", showing_id)
            /\ UNCHANGED <<showings, activity_logs>>
       ELSE LET s == decline_update(showings[showing_id])
            IN  /\ TotalEvents < MaxEvents
                /\ showings' = [showings EXCEPT ![showing_id] = s]
                /\ activity_logs' =
                     IF ui_try_raises(s.property_id) THEN activity_logs
                     ELSE log_event(activity_logs, s.property_id,
                             "showing_declined",
                             [showing_id |-> showing_id,
                              client_name |-> s.client_name,
                              scheduled_at |-> isoformat(s.scheduled_at)])
                /\ response' = Resp(302, "", showing_id)
    /\ UNCHANGED <<properties, blocked_times, threads, share_vars, db_vars,
                   aux_vars>>

(* POST /showings/<showing_id>/reschedule_ui *)
ui_reschedule_showing(showing_id, new_time, n) ==
    /\ IF showing_id \notin DOMAIN showings
       THEN /\ response' = Resp(404, "Showing not found", NoId)
            /\ UNCHANGED <<showings, activity_logs>>
       ELSE IF new_time = Missing \/ ~iso_valid(new_time)
       THEN /\ response' = Resp(302, "", showing_id)
            /\ UNCHANGED <<showings, activity_logs>>
       ELSE LET start   == fromisoformat(new_time)
                prop_id == showings[showing_id].property_id
                s       == reschedule_update(showings[showing_id], start, n)
            IN  IF is_time_blocked(prop_id, start, start + Hour)
                   \/ has_conflict(prop_id, start, start + Hour)
                THEN /\ response' = Resp(302, "", showing_id)
                     /\ UNCHANGED <<showings, activity_logs>>
                ELSE /\ TotalEvents < MaxEvents
                     /\ showings' = [showings EXCEPT ![showing_id] = s]
                     /\ activity_logs' =
                          IF ui_try_raises(prop_id) THEN activity_logs
                          ELSE log_event(activity_logs, prop_id,
                                  "showing_rescheduled",
                                  [showing_id |-> showing_id,
                                   client_name |-> s.client_name,
                                   new_scheduled_at |-> isoformat(start)])
                     /\ response' = Resp(302, "", showing_id)
    /\ UNCHANGED <<properties, blocked_times, threads, share_vars, db_vars,
                   aux_vars>>

\* the times of the runs that compare the routes, one of them unparsable
UiTimes == {<<0, 0>>, <<0, 30>>, BadIso}

NextUi ==
    \/ property_list(TRUE, FALSE, FALSE)
    \/ ui_create_property(TRUE, TRUE, FALSE, FALSE)
    \/ \E p \in PropIds, t \in UiTimes : ui_schedule_showing(p, t, "Ann", 7)
    \/ \E id \in ShowingIds : approve_showing(id, 7)
    \/ \E id \in ShowingIds : decline_showing(id)
    \/ \E id \in ShowingIds, t \in UiTimes : reschedule_showing(id, t, 7)
    \/ \E id \in ShowingIds : ui_approve_showing(id, 7)
    \/ \E id \in ShowingIds : ui_decline_showing(id)
    \/ \E id \in ShowingIds, t \in UiTimes : ui_reschedule_showing(id, t, 7)
    \/ ui_profile(TRUE)

SpecUi == Init /\ [][NextUi]_vars

\* what a lifecycle request on a showing can leave behind: the showing as it
\* is or updated to s, the log as it is or with the event
LifecycleOutcomes(s, event_type, details) ==
    LET updated == [showings EXCEPT ![s.id] = s]
        logged == log_event(activity_logs, s.property_id, event_type, details)
    IN  {<<showings, activity_logs>>, <<updated, activity_logs>>,
         <<updated, logged>>, <<showings, logged>>}

\* the two routes can leave exactly the same of these outcomes, and no other
SameOutcomes(ui, api, outcomes) ==
    /\ ~ENABLED (ui /\ <<showings', activity_logs'>> \notin outcomes)
    /\ ~ENABLED (api /\ <<showings', activity_logs'>> \notin outcomes)
    /\ \A o \in outcomes :
          ENABLED (ui /\ showings' = o[1] /\ activity_logs' = o[2])
             <=> ENABLED (api /\ showings' = o[1] /\ activity_logs' = o[2])

\* C36: in every state and for every stored showing, ui_approve_showing,
\* ui_decline_showing and ui_reschedule_showing can leave exactly the showing
\* record and the activity log that approve_showing, decline_showing and
\* reschedule_showing leave for the same request; where the API route
\* refuses, that is the record and the log as they were.
C36_UiLifecycleMatchesApi ==
    \A id \in DOMAIN showings :
        LET s == showings[id]
            a == approve_update(s, 7)
            d == decline_update(s)
        IN  /\ SameOutcomes(ui_approve_showing(id, 7), approve_showing(id, 7),
                  LifecycleOutcomes(a, "showing_approved",
                     [showing_id |-> id,
                      client_name |-> a.client_name,
                      scheduled_at |-> isoformat(a.scheduled_at),
                      lockbox_code |-> a.lockbox_code]))
            /\ SameOutcomes(ui_decline_showing(id), decline_showing(id),
                  LifecycleOutcomes(d, "showing_declined",
                     [showing_id |-> id,
                      client_name |-> d.client_name,
                      scheduled_at |-> isoformat(d.scheduled_at)]))
            /\ \A t \in GoodIso :
                  LET r == reschedule_update(s, fromisoformat(t), 7)
                  IN  SameOutcomes(ui_reschedule_showing(id, t, 7),
                                   reschedule_showing(id, t, 7),
                         LifecycleOutcomes(r, "showing_rescheduled",
                            [showing_id |-> id,
                             client_name |-> r.client_name,
                             new_scheduled_at |-> isoformat(fromisoformat(t))]))

============================================================================
